---- MODULE Spec2Model ----
(***************************************************************************)
(* escape-logs-analyzer: ingestion of an archive of exchange records       *)
(* (app/processor.py), the record and aggregate models (app/models.py)     *)
(* and the filter engine (app/filters.py).                                 *)
(*                                                                         *)
(* A Python str is a sequence of one-character strings, so that upper(),   *)
(* startswith(), split(), `in` and int() are computed as the code computes *)
(* them.  A dict is a sequence of <<key, value>> pairs in insertion order. *)
(***************************************************************************)
EXTENDS Integers, Sequences, FiniteSets, TLC

VARIABLES
    logs_data,       \* LogsData.data: [keys |-> ids in insertion order, data |-> id -> Exchange]
    filters,         \* the filter dict of the last query
    result,          \* the outcome of the last query
    endpoints_data,  \* EndpointsInfoData.data of the last aggregation pass
    zip_ref,         \* the archive given to process_zip
    errors,          \* the entry names process_zip reported an error for, in order
    pc,              \* where the session is
    calls,           \* the exchanges given to LogsData.add_exchange so far, in order (noted under SpecLoad only)
    file_index,      \* LogShell.file_index: number -> id
    index_file,      \* LogShell.index_file: id -> number
    endpoints        \* LogShell.endpoints: the named groups extract_endpoints made at the start of the shell

vars ==
    <<logs_data, filters, result, endpoints_data, zip_ref, errors, pc, calls, file_index,
      index_file, endpoints>>

(***************************************************************************)
(* Bounds                                                                  *)
(***************************************************************************)
MaxRecords == 2
MaxSize == 3
MaxEntries == 2
MaxCalls == 3

\* the most groups given ids
MaxGroups == 60

(***************************************************************************)
(* str                                                                     *)
(***************************************************************************)
LowerCase == <<"a", "b", "c", "d", "e", "f", "g", "h", "i", "j", "k", "l", "m", "n", "o", "p", "q", "r", "s", "t", "u", "v", "w", "x", "y", "z">>
UpperCase == <<"A", "B", "C", "D", "E", "F", "G", "H", "I", "J", "K", "L", "M", "N", "O", "P", "Q", "R", "S", "T", "U", "V", "W", "X", "Y", "Z">>
Digits == <<"0", "1", "2", "3", "4", "5", "6", "7", "8", "9">>

Range(s) == {s[i] : i \in DOMAIN s}

LowerChars == Range(LowerCase)
UpperChars == Range(UpperCase)
DigitChars == Range(Digits)

IndexIn(c, alphabet) == CHOOSE i \in DOMAIN alphabet : alphabet[i] = c

\* str.upper()
Upper(s) ==
    [i \in DOMAIN s |->
        IF s[i] \in LowerChars THEN UpperCase[IndexIn(s[i], LowerCase)] ELSE s[i]]

\* str.lower()
Lower(s) ==
    [i \in DOMAIN s |->
        IF s[i] \in UpperChars THEN LowerCase[IndexIn(s[i], UpperCase)] ELSE s[i]]

\* s.startswith(p)
StartsWith(s, p) == Len(p) <= Len(s) /\ SubSeq(s, 1, Len(p)) = p

\* s.endswith(p)
EndsWith(s, p) == Len(p) <= Len(s) /\ SubSeq(s, Len(s) - Len(p) + 1, Len(s)) = p

\* p in s
Contains(s, p) == \E i \in 0..(Len(s) - Len(p)) : SubSeq(s, i + 1, i + Len(p)) = p

\* the position of the first c in s, 0 when there is none
Find(s, c) ==
    IF c \in Range(s) THEN CHOOSE i \in DOMAIN s : s[i] = c /\ \A j \in 1..(i - 1) : s[j] # c
    ELSE 0

\* s.split(c)
RECURSIVE Split(_, _)
Split(s, c) ==
    IF Find(s, c) = 0 THEN <<s>>
    ELSE <<SubSeq(s, 1, Find(s, c) - 1)>> \o Split(SubSeq(s, Find(s, c) + 1, Len(s)), c)

\* int(s) raises ValueError unless s is a non-empty run of digits (no sign, blank
\* or underscore occurs in the values drawn here)
IsInt(s) == s # <<>> /\ Range(s) \subseteq DigitChars

RECURSIVE ParseInt(_)
ParseInt(s) ==
    IF s = <<>> THEN 0
    ELSE 10 * ParseInt(SubSeq(s, 1, Len(s) - 1)) + (IndexIn(s[Len(s)], Digits) - 1)

\* str(n) of a non-negative int
RECURSIVE IntToStr(_)
IntToStr(n) ==
    IF n < 10 THEN <<Digits[n + 1]>>
    ELSE IntToStr(n \div 10) \o <<Digits[(n % 10) + 1]>>

\* ', '.join(values)
RECURSIVE Join(_)
Join(values) ==
    IF values = <<>> THEN <<>>
    ELSE IF Len(values) = 1 THEN values[1]
    ELSE values[1] \o <<",", " ">> \o Join(Tail(values))

(***************************************************************************)
(* app/utils.py                                                            *)
(***************************************************************************)
\* the characters of the inputs in code point order: str comparison, sorted()
CodePoints == <<"!", "#", "&", "(", ")", "+", ",", "-", ".", "/", "0", "1", "2", "3", "4", "5", "6", "7", "8", "9", ":", ";", "=", "?", "A", "B", "C", "D", "E", "F", "G", "H", "I", "J", "K", "L", "M", "N", "O", "P", "Q", "R", "S", "T", "U", "V", "W", "X", "Y", "Z", "_", "a", "b", "c", "d", "e", "f", "g", "h", "i", "j", "k", "l", "m", "n", "o", "p", "q", "r", "s", "t", "u", "v", "w", "x", "y", "z", "{", "}">>

\* a < b for str
StrLess(a, b) ==
    \/ Len(a) < Len(b) /\ SubSeq(b, 1, Len(a)) = a
    \/ \E k \in 1..Len(a) :
          /\ k <= Len(b)
          /\ SubSeq(a, 1, k - 1) = SubSeq(b, 1, k - 1)
          /\ IndexIn(a[k], CodePoints) < IndexIn(b[k], CodePoints)

\* sorted(strs) of distinct strs
RECURSIVE Sorted(_)
Sorted(strs) ==
    IF strs = {} THEN <<>>
    ELSE <<CHOOSE m \in strs : \A o \in strs \ {m} : StrLess(m, o)>>
         \o Sorted(strs \ {CHOOSE m \in strs : \A o \in strs \ {m} : StrLess(m, o)})

SchemeChars == LowerChars \cup UpperChars \cup DigitChars \cup {"+", "-", "."}

\* the first position at or after `from` of a character of cs, Len(s) + 1 when none
FirstOf(s, cs, from) ==
    IF \E i \in from..Len(s) : s[i] \in cs
    THEN CHOOSE i \in from..Len(s) : s[i] \in cs /\ \A j \in from..(i - 1) : s[j] \notin cs
    ELSE Len(s) + 1

\* urlparse(url).path: the scheme, the //netloc, the ?query and the #fragment removed
extract_path_from_url(url) ==
    LET i == Find(url, ":")
        rest == IF i > 1 /\ url[1] \in LowerChars \cup UpperChars
                   /\ Range(SubSeq(url, 1, i - 1)) \subseteq SchemeChars
                THEN SubSeq(url, i + 1, Len(url)) ELSE url
        u == IF StartsWith(rest, <<"/", "/">>)
             THEN SubSeq(rest, FirstOf(rest, {"/", "?", "#"}, 3), Len(rest)) ELSE rest
    IN  SubSeq(u, 1, FirstOf(u, {"#", "?"}, 1) - 1)

clean_content_type(content_type) ==
    IF StartsWith(content_type, <<"a", "p", "p", "l", "i", "c", "a", "t", "i", "o", "n", "/", "j", "s", "o", "n">>) THEN <<"a", "p", "p", "l", "i", "c", "a", "t", "i", "o", "n", "/", "j", "s", "o", "n">>
    ELSE content_type

(***************************************************************************)
(* app/filters.py                                                          *)
(*                                                                         *)
(* `data` is the dict view of an Exchange.  A filter function returns      *)
(* Return(b) or raises: Raise(exception).                                  *)
(***************************************************************************)
Return(b) == [exc |-> "none", ret |-> b]
Raise(e) == [exc |-> e, ret |-> FALSE]

\* data.get(key, default)
DataGet(data, key, default) == IF key \in DOMAIN data THEN data[key] ELSE default

_is_inverted_filter(filter_value) ==
    IF StartsWith(filter_value, <<"!">>)
    THEN <<TRUE, SubSeq(filter_value, 2, Len(filter_value))>>
    ELSE <<FALSE, filter_value>>

_filter_by_method(data, method_filter) ==
    Return(Upper(DataGet(data, "method", <<>>)) = Upper(method_filter))

\* re.search(url_filter, url).  The patterns drawn are literal characters, which
\* re.search finds as a substring, and "(", which opens a group no ")" ends:
\* re.compile raises re.error
RegexCompiles(pattern) == "(" \notin Range(pattern)

_filter_by_url(data, url_filter) ==
    IF RegexCompiles(url_filter)
    THEN Return(Contains(DataGet(data, "url", <<>>), url_filter))
    ELSE Raise("re.error")

_filter_by_operation(data, operation_filter) ==
    Return(Contains(DataGet(data, "operationName", <<>>), operation_filter))

_filter_by_status_code(data, status_filter) ==
    Return(IntToStr(DataGet(data, "inferredStatusCode", 0)) = status_filter)

_filter_by_scalar(data, scalar_filter) ==
    Return(Contains(DataGet(data, "inferredScalarType", <<>>), scalar_filter))

_filter_by_coverage(data, coverage_filter) ==
    Return(Contains(DataGet(data, "coverage", <<>>), coverage_filter))

\* _filter_by_size with the upper end of the range excluded
_filter_by_size_exclusive_max(data, size_filter) ==
    LET parts == Split(size_filter, "-")
    IN  IF Len(parts) = 2 /\ IsInt(parts[1]) /\ IsInt(parts[2])
        THEN Return(ParseInt(parts[1]) <= Len(DataGet(data, "responseBody", <<>>))
                    /\ Len(DataGet(data, "responseBody", <<>>)) < ParseInt(parts[2]))
        ELSE Return(TRUE)

\* min_size, max_size = map(int, size_filter.split('-')): a ValueError (a part
\* that is no int, or not exactly two parts) is caught and returns True
_filter_by_size(data, size_filter) ==
    LET parts == Split(size_filter, "-")
    IN  IF Len(parts) = 2 /\ IsInt(parts[1]) /\ IsInt(parts[2])
        THEN Return(ParseInt(parts[1]) <= Len(DataGet(data, "responseBody", <<>>))
                    /\ Len(DataGet(data, "responseBody", <<>>)) <= ParseInt(parts[2]))
        ELSE Return(TRUE)

\* the first header named content-type decides, whether or not it has values
ContentTypeHeaders(response_headers) ==
    SelectSeq(response_headers, LAMBDA header : Lower(header.name) = <<"c", "o", "n", "t", "e", "n", "t", "-", "t", "y", "p", "e">>)

_filter_by_content_type(data, content_type_filter) ==
    LET found == ContentTypeHeaders(DataGet(data, "responseHeaders", <<>>))
        content_type ==
            IF found # <<>> /\ found[1].values # <<>>
            THEN clean_content_type(found[1].values[1])
            ELSE <<"u", "n", "k", "n", "o", "w", "n">>
    IN  Return(Contains(content_type, content_type_filter))

_filter_by_requester(data, requester_filter) ==
    Return(Contains(DataGet(data, "requester", <<>>), requester_filter))

\* requestBody is [kind, has_name, name]: kind "None" or "empty" is falsy; "text"
\* is no JSON (json.loads raises JSONDecodeError, caught); "array" is JSON but no
\* object (body_json.get raises AttributeError, not caught); "object" is a JSON
\* object holding "name" or not
NoRequestBody == [kind |-> "None", has_name |-> FALSE, name |-> <<>>]

_filter_by_name(data, name_filter) ==
    LET request_body == DataGet(data, "requestBody", NoRequestBody)
        truthy == request_body.kind \notin {"None", "empty"}
        parsed == IF truthy /\ request_body.kind = "object"
                  THEN (IF request_body.has_name THEN request_body.name ELSE <<>>)
                  ELSE <<"u", "n", "k", "n", "o", "w", "n">>
        name == IF parsed = <<"u", "n", "k", "n", "o", "w", "n">>
                THEN extract_path_from_url(DataGet(data, "url", <<"u", "n", "k", "n", "o", "w", "n">>))
                ELSE parsed
    IN  IF truthy /\ request_body.kind = "array" THEN Raise("AttributeError")
        ELSE Return(Contains(name, name_filter))

FilterFunctionKeys ==
    {<<"m", "e", "t", "h", "o", "d">>, <<"u", "r", "l">>, <<"o", "p", "e", "r", "a", "t", "i", "o", "n">>, <<"s", "t", "a", "t", "u", "s", "_", "c", "o", "d", "e">>, <<"s", "c", "a", "l", "a", "r">>, <<"c", "o", "v", "e", "r", "a", "g", "e">>, <<"s", "i", "z", "e">>,
     <<"c", "o", "n", "t", "e", "n", "t", "_", "t", "y", "p", "e">>, <<"r", "e", "q", "u", "e", "s", "t", "e", "r">>, <<"e", "n", "d", "p", "o", "i", "n", "t">>}

filter_functions(key, data, value) ==
    CASE key = <<"m", "e", "t", "h", "o", "d">> -> _filter_by_method(data, value)
      [] key = <<"u", "r", "l">> -> _filter_by_url(data, value)
      [] key = <<"o", "p", "e", "r", "a", "t", "i", "o", "n">> -> _filter_by_operation(data, value)
      [] key = <<"s", "t", "a", "t", "u", "s", "_", "c", "o", "d", "e">> -> _filter_by_status_code(data, value)
      [] key = <<"s", "c", "a", "l", "a", "r">> -> _filter_by_scalar(data, value)
      [] key = <<"c", "o", "v", "e", "r", "a", "g", "e">> -> _filter_by_coverage(data, value)
      [] key = <<"s", "i", "z", "e">> -> _filter_by_size(data, value)
      [] key = <<"c", "o", "n", "t", "e", "n", "t", "_", "t", "y", "p", "e">> -> _filter_by_content_type(data, value)
      [] key = <<"r", "e", "q", "u", "e", "s", "t", "e", "r">> -> _filter_by_requester(data, value)
      [] key = <<"e", "n", "d", "p", "o", "i", "n", "t">> -> _filter_by_name(data, value)

_apply_filter_with_inversion(key, data, filter_value) ==
    LET Inversion(inv) ==
            LET Negated(r) == IF r.exc # "none" THEN r
                              ELSE IF inv[1] THEN Return(~r.ret) ELSE r
            IN  Negated(filter_functions(key, data, inv[2]))
    IN  Inversion(_is_inverted_filter(filter_value))

\* the loop of apply_filters returning after its first recognized criterion
ApplyFiltersFrom_first_only(data, fs, i) ==
    LET known == {j \in i..Len(fs) : fs[j][1] \in FilterFunctionKeys}
    IN  IF known = {} THEN Return(TRUE)
        ELSE LET j == CHOOSE j \in known : \A k \in known : j <= k
             IN  _apply_filter_with_inversion(fs[j][1], data, fs[j][2])

\* the loop of apply_filters over filters.items(), from item i on
RECURSIVE ApplyFiltersFrom(_, _, _)
ApplyFiltersFrom(data, fs, i) ==
    IF i > Len(fs) THEN Return(TRUE)
    ELSE IF fs[i][1] \notin FilterFunctionKeys THEN ApplyFiltersFrom(data, fs, i + 1)
    ELSE LET Step(r) == IF r.exc # "none" THEN r
                        ELSE IF ~r.ret THEN Return(FALSE)
                        ELSE ApplyFiltersFrom(data, fs, i + 1)
         IN  Step(_apply_filter_with_inversion(fs[i][1], data, fs[i][2]))

\* apply_filters rejecting every record when there is no filter
apply_filters_empty_rejects(data, fs) ==
    IF fs = <<>> THEN Return(FALSE) ELSE ApplyFiltersFrom(data, fs, 1)

apply_filters(data, fs) ==
    IF fs = <<>> THEN Return(TRUE) ELSE ApplyFiltersFrom(data, fs, 1)

(***************************************************************************)
(* app/models.py                                                           *)
(***************************************************************************)
\* http.HTTPMethod
HTTPMethod ==
    {<<"C", "O", "N", "N", "E", "C", "T">>, <<"D", "E", "L", "E", "T", "E">>, <<"G", "E", "T">>, <<"H", "E", "A", "D">>, <<"O", "P", "T", "I", "O", "N", "S">>, <<"P", "A", "T", "C", "H">>, <<"P", "O", "S", "T">>, <<"P", "U", "T">>, <<"T", "R", "A", "C", "E">>}

\* Optional[str]
None == [is_none |-> TRUE, value |-> <<>>]
Some(s) == [is_none |-> FALSE, value |-> s]
Truthy(opt) == ~opt.is_none /\ opt.value # <<>>

\* Exchange.content_type
content_type(exchange) ==
    LET found == ContentTypeHeaders(exchange.responseHeaders)
    IN  IF found = <<>> THEN None
        ELSE IF <<"a", "p", "p", "l", "i", "c", "a", "t", "i", "o", "n", "/", "j", "s", "o", "n">> \in Range(found[1].values) THEN Some(<<"a", "p", "p", "l", "i", "c", "a", "t", "i", "o", "n", "/", "j", "s", "o", "n">>)
        ELSE Some(Join(found[1].values))

\* ExchangeParameter(name=..., values=[value], _in=...)
ExchangeParameter(name, value, location) ==
    [name |-> name, values |-> <<value>>, _in |-> location]

\* Exchange.queryParams: self.url.split('?')[1] raises IndexError when the url has
\* no '?'; of a param the name is split('=')[0] and the value split('=')[1]
queryParams(exchange) ==
    IF Len(Split(exchange.url, "?")) < 2 THEN [exc |-> "IndexError", ret |-> <<>>]
    ELSE LET Each(params) ==
                 [exc |-> "none",
                  ret |-> [i \in DOMAIN params |->
                              ExchangeParameter(Split(params[i], "=")[1], Split(params[i], "=")[2],
                                                "query")]]
         IN  Each(SelectSeq(Split(Split(exchange.url, "?")[2], "&"),
                            LAMBDA param : "=" \in Range(param)))

\* re.search(r'\{([^}]+)\}', path_part): the leftmost '{' whose next '}' comes after
\* at least one character; group(1) is what stands between them
ParamMatches(path_part) ==
    {p \in DOMAIN path_part :
        /\ path_part[p] = "{"
        /\ Find(SubSeq(path_part, p + 1, Len(path_part)), "}") >= 2}

ParamName(path_part) ==
    LET Group(p) == SubSeq(path_part, p + 1,
                           p + Find(SubSeq(path_part, p + 1, Len(path_part)), "}") - 1)
    IN  Group(CHOOSE p \in ParamMatches(path_part) : \A q \in ParamMatches(path_part) : p <= q)

\* Exchange.pathParams: the parts of the url before '?' against the parts of the path
pathParams(exchange) ==
    LET Matched(url_parts, path_parts) ==
            LET Placeholders(at) ==
                    [k \in DOMAIN at |->
                        ExchangeParameter(ParamName(path_parts[at[k]]), url_parts[at[k]], "path")]
            IN  Placeholders(SelectSeq([i \in 1..(IF Len(url_parts) < Len(path_parts) THEN Len(url_parts)
                                                 ELSE Len(path_parts)) |-> i],
                                       LAMBDA i : ParamMatches(path_parts[i]) # {}))
    IN  Matched(Split(Split(exchange.url, "?")[1], "/"), Split(exchange.path, "/"))

EmptyLogsData == [keys |-> <<>>, data |-> <<>>]

\* add_exchange keeping the record an id already has (first-write-wins)
LogsData_add_exchange_keep_first(logs, exchange) ==
    [keys |-> IF exchange.exchangeId \in Range(logs.keys) THEN logs.keys
              ELSE Append(logs.keys, exchange.exchangeId),
     data |-> logs.data @@ (exchange.exchangeId :> exchange)]

\* LogsData.add_exchange: self.data[exchange.exchangeId] = exchange
LogsData_add_exchange(logs, exchange) ==
    [keys |-> IF exchange.exchangeId \in Range(logs.keys) THEN logs.keys
              ELSE Append(logs.keys, exchange.exchangeId),
     data |-> (exchange.exchangeId :> exchange) @@ logs.data]

\* LogsData.get_all_exchange_ids
get_all_exchange_ids(logs) == Range(logs.keys)

\* LogsData.get_all_exchanges: list(self.data.values())
get_all_exchanges(logs) == [i \in DOMAIN logs.keys |-> logs.data[logs.keys[i]]]

\* LogsData.count_exchanges
count_exchanges(logs) == Len(logs.keys)

\* EndpointInfo(path=..., method=...)
EndpointInfo(path, method) ==
    [path |-> path, method |-> method,
     status_codes |-> {}, inferred_status_codes |-> {}, coverage |-> {},
     response_lengths |-> <<>>, content_types |-> {}, requesters |-> {},
     methods |-> {}, urls |-> {}, exchange_ids |-> {}]

\* EndpointInfo.count_exchanges
EndpointInfo_count_exchanges(info) == Cardinality(info.exchange_ids)

EmptyEndpointsInfoData == [keys |-> <<>>, data |-> <<>>]

\* add_exchange keyed by the path alone: a path seen before keeps its first aggregate
add_exchange_keyed_by_path(self, exchange) ==
    LET same_path == {k \in Range(self.keys) : k[1] = exchange.path}
        key == IF same_path # {} THEN CHOOSE k \in same_path : TRUE
               ELSE <<exchange.path, exchange.method>>
        old == IF same_path # {} THEN self.data[key]
               ELSE EndpointInfo(exchange.path, exchange.method)
        new == [old EXCEPT
                  !.exchange_ids = @ \cup {exchange.exchangeId},
                  !.status_codes = @ \cup {exchange.responseStatusCode},
                  !.inferred_status_codes = @ \cup {exchange.inferredStatusCode},
                  !.coverage = @ \cup {exchange.coverage},
                  !.response_lengths = Append(@, Len(exchange.responseBody)),
                  !.content_types = IF Truthy(content_type(exchange))
                                    THEN @ \cup {content_type(exchange).value} ELSE @,
                  !.requesters = @ \cup {exchange.requester},
                  !.methods = @ \cup {exchange.method}]
    IN  [keys |-> IF same_path # {} THEN self.keys ELSE Append(self.keys, key),
         data |-> (key :> new) @@ self.data]

\* add_exchange putting the inferred status code among the response status codes
add_exchange_mixed_status(self, exchange) ==
    LET key == <<exchange.path, exchange.method>>
        old == IF key \in Range(self.keys) THEN self.data[key]
               ELSE EndpointInfo(exchange.path, exchange.method)
        new == [old EXCEPT
                  !.exchange_ids = @ \cup {exchange.exchangeId},
                  !.status_codes = @ \cup {exchange.inferredStatusCode},
                  !.inferred_status_codes = @ \cup {exchange.inferredStatusCode},
                  !.coverage = @ \cup {exchange.coverage},
                  !.response_lengths = Append(@, Len(exchange.responseBody)),
                  !.content_types = IF Truthy(content_type(exchange))
                                    THEN @ \cup {content_type(exchange).value} ELSE @,
                  !.requesters = @ \cup {exchange.requester},
                  !.methods = @ \cup {exchange.method}]
    IN  [keys |-> IF key \in Range(self.keys) THEN self.keys
                  ELSE Append(self.keys, key),
         data |-> (key :> new) @@ self.data]

\* EndpointsInfoData.add_exchange
EndpointsInfoData_add_exchange(self, exchange) ==
    LET key == <<exchange.path, exchange.method>>
        old == IF key \in Range(self.keys) THEN self.data[key]
               ELSE EndpointInfo(exchange.path, exchange.method)
        new == [old EXCEPT
                  !.exchange_ids = @ \cup {exchange.exchangeId},
                  !.status_codes = @ \cup {exchange.responseStatusCode},
                  !.inferred_status_codes = @ \cup {exchange.inferredStatusCode},
                  !.coverage = @ \cup {exchange.coverage},
                  !.response_lengths = Append(@, Len(exchange.responseBody)),
                  !.content_types = IF Truthy(content_type(exchange))
                                    THEN @ \cup {content_type(exchange).value} ELSE @,
                  !.requesters = @ \cup {exchange.requester},
                  !.methods = @ \cup {exchange.method}]
    IN  [keys |-> IF key \in Range(self.keys) THEN self.keys
                  ELSE Append(self.keys, key),
         data |-> (key :> new) @@ self.data]

\* EndpointsInfoData.from_logs_data: add_exchange for each of get_all_exchanges()
RECURSIVE AddExchanges(_, _)
AddExchanges(self, exchanges) ==
    IF exchanges = <<>> THEN self
    ELSE AddExchanges(EndpointsInfoData_add_exchange(self, Head(exchanges)), Tail(exchanges))

from_logs_data(logs) == AddExchanges(EmptyEndpointsInfoData, get_all_exchanges(logs))

\* EndpointsInfoData.get_all_endpoint_paths
get_all_endpoint_paths(self) == Range(self.keys)

(***************************************************************************)
(* Inputs: exchanges                                                       *)
(***************************************************************************)
Header(name, values) == [name |-> name, values |-> values]
RequestBody(kind, has_name, name) == [kind |-> kind, has_name |-> has_name, name |-> name]

\* the body of n characters
RECURSIVE Body(_)
Body(n) == IF n = 0 THEN <<>> ELSE Append(Body(n - 1), "x")

Profiles ==
    { [path |-> <<"/", "a", "/", "{", "i", "}">>, method |-> <<"G", "E", "T">>, url |-> <<"/", "a", "/", "1", "?", "k", "=", "v">>,
       requestHeaders |-> <<Header(<<"A", "c", "c", "e", "p", "t">>, <<<<"*", "/", "*">>>>)>>,
       requestBody |-> NoRequestBody,
       responseHeaders |-> <<Header(<<"C", "o", "n", "t", "e", "n", "t", "-", "T", "y", "p", "e">>, <<<<"a", "p", "p", "l", "i", "c", "a", "t", "i", "o", "n", "/", "j", "s", "o", "n", ";", " ", "c", "h", "a", "r", "s", "e", "t", "=", "u", "t", "f", "-", "8">>>>)>>,
       responseBody |-> Body(0), responseStatusCode |-> 200, inferredStatusCode |-> 200,
       coverage |-> <<"o", "k">>, requester |-> <<"s", "c", "a", "n">>],
      [path |-> <<"/", "a", "/", "{", "i", "}">>, method |-> <<"P", "O", "S", "T">>, url |-> <<"/", "a", "/", "2">>,
       requestHeaders |-> <<>>,
       requestBody |-> RequestBody("object", TRUE, <<"n", "1">>),
       responseHeaders |-> <<Header(<<"X", "-", "I", "d">>, <<<<"7">>>>), Header(<<"c", "o", "n", "t", "e", "n", "t", "-", "t", "y", "p", "e">>, <<<<"t", "e", "x", "t", "/", "h", "t", "m", "l">>>>)>>,
       responseBody |-> Body(1), responseStatusCode |-> 201, inferredStatusCode |-> 200,
       coverage |-> <<"o", "k">>, requester |-> <<"s", "c", "a", "n">>],
      [path |-> <<"/", "a", "/", "{", "i", "}">>, method |-> <<"G", "E", "T">>, url |-> <<"/", "a", "/", "3">>,
       requestHeaders |-> <<Header(<<"X", "-", "E", "m", "p", "t", "y">>, <<>>), Header(<<"A", "c", "c", "e", "p", "t">>, <<<<"t", "e", "x", "t", "/", "h", "t", "m", "l">>, <<"*", "/", "*">>>>)>>,
       requestBody |-> RequestBody("array", FALSE, <<>>),
       responseHeaders |-> <<Header(<<"C", "o", "n", "t", "e", "n", "t", "-", "T", "y", "p", "e">>, <<>>),
                           Header(<<"c", "o", "n", "t", "e", "n", "t", "-", "t", "y", "p", "e">>, <<<<"t", "e", "x", "t", "/", "p", "l", "a", "i", "n">>>>)>>,
       responseBody |-> Body(2), responseStatusCode |-> 200, inferredStatusCode |-> 404,
       coverage |-> <<"n", "o">>, requester |-> <<"s", "c", "a", "n">>],
      [path |-> <<"/", "b">>, method |-> <<"D", "E", "L", "E", "T", "E">>, url |-> <<"h", ":", "/", "/", "s", "/", "b", "/">> \o Body(48) \o <<"?", "k", "=", "1">>,
       requestHeaders |-> <<Header(<<"A", "u", "t", "h", "o", "r", "i", "z", "a", "t", "i", "o", "n">>, <<<<"t">>>>)>>,
       requestBody |-> RequestBody("text", FALSE, <<>>),
       responseHeaders |-> <<Header(<<"C", "o", "n", "t", "e", "n", "t", "-", "T", "y", "p", "e">>, <<<<"t", "e", "x", "t", "/", "p", "l", "a", "i", "n">>, <<"a", "p", "p", "l", "i", "c", "a", "t", "i", "o", "n", "/", "j", "s", "o", "n">>>>)>>,
       responseBody |-> Body(3), responseStatusCode |-> 500, inferredStatusCode |-> 200,
       coverage |-> <<"o", "k">>, requester |-> <<"u", "s", "e", "r">>],
      [path |-> <<"/", "b">>, method |-> <<"G", "E", "T">>, url |-> <<"/", "b", "/">> \o Body(48),
       requestHeaders |-> <<>>,
       requestBody |-> RequestBody("empty", FALSE, <<>>),
       responseHeaders |-> <<>>,
       responseBody |-> Body(1), responseStatusCode |-> 404, inferredStatusCode |-> 404,
       coverage |-> <<"n", "o">>, requester |-> <<"u", "s", "e", "r">>] }

ExchangeIds == {IntToStr(i) \o <<".", "j", "s", "o", "n">> : i \in 1..MaxRecords}

Exchange(id, profile) == [exchangeId |-> id] @@ profile

Exchanges == {Exchange(id, p) : id \in ExchangeIds, p \in Profiles}

(***************************************************************************)
(* Inputs: filter expressions, given as the words shlex.split makes of     *)
(* them (no word drawn holds a quote, a blank or a backslash)              *)
(***************************************************************************)
Part(criterion) == criterion[1] \o <<"=">> \o criterion[2]

SizeRanges == {IntToStr(i) \o <<"-">> \o IntToStr(j) : i, j \in 0..MaxSize}

MalformedSizes == {<<"x">>, <<"1">>, <<"1", "-">>, <<"-", "1">>, <<"1", "-", "2", "-", "3">>, <<>>}

Criteria ==
    ({<<"m", "e", "t", "h", "o", "d">>} \X {<<"G", "E", "T">>, <<"g", "e", "t">>, <<"P", "U", "T">>})
    \cup ({<<"u", "r", "l">>} \X {<<"/", "a">>, <<"k", "=", "v">>, <<"/", "b">>, <<"(">>})
    \cup ({<<"s", "t", "a", "t", "u", "s", "_", "c", "o", "d", "e">>} \X {<<"2", "0", "0">>, <<"4", "0", "4">>, <<"2", "0">>})
    \cup ({<<"c", "o", "v", "e", "r", "a", "g", "e">>} \X {<<"o", "k">>, <<"o">>, <<>>})
    \cup ({<<"s", "i", "z", "e">>} \X (SizeRanges \cup {<<"1", "-", "1", "0">>} \cup MalformedSizes))
    \cup ({<<"c", "o", "n", "t", "e", "n", "t", "_", "t", "y", "p", "e">>} \X {<<"j", "s", "o", "n">>, <<"t", "e", "x", "t">>, <<"u", "n", "k", "n", "o", "w", "n">>, <<"c", "h", "a", "r", "s", "e", "t">>})
    \cup ({<<"r", "e", "q", "u", "e", "s", "t", "e", "r">>} \X {<<"s", "c", "a", "n">>, <<"s">>})
    \cup ({<<"o", "p", "e", "r", "a", "t", "i", "o", "n">>} \X {<<>>, <<"l", "o", "g", "i", "n">>})
    \cup ({<<"s", "c", "a", "l", "a", "r">>} \X {<<"i", "n", "t">>})
    \cup ({<<"e", "n", "d", "p", "o", "i", "n", "t">>} \X {<<"/", "a">>, <<"n", "1">>, <<"/", "b">>})
    \cup ({<<"p", "a", "t", "h">>} \X {<<"/", "b">>})
    \cup ({<<"i", "n", "f", "e", "r", "r", "e", "d", "_", "s", "t", "a", "t", "u", "s", "_", "c", "o", "d", "e">>} \X {<<"2", "0", "0">>})
    \cup ({<<"f", "o", "o">>} \X {<<"x">>})

\* the criterion with the negation marker put before its value
Inverted(criterion) == <<criterion[1], <<"!">> \o criterion[2]>>

PairCriteria ==
    {<<<<"m", "e", "t", "h", "o", "d">>, <<"G", "E", "T">>>>, <<<<"u", "r", "l">>, <<"/", "a">>>>, <<<<"u", "r", "l">>, <<"(">>>>, <<<<"s", "t", "a", "t", "u", "s", "_", "c", "o", "d", "e">>, <<"2", "0", "0">>>>,
     <<<<"c", "o", "v", "e", "r", "a", "g", "e">>, <<"!", "o", "k">>>>, <<<<"s", "i", "z", "e">>, <<"1", "-", "3">>>>, <<<<"c", "o", "n", "t", "e", "n", "t", "_", "t", "y", "p", "e">>, <<"j", "s", "o", "n">>>>,
     <<<<"r", "e", "q", "u", "e", "s", "t", "e", "r">>, <<"!", "s", "c", "a", "n">>>>, <<<<"p", "a", "t", "h">>, <<"/", "b">>>>}

FilterArgs ==
    {<<>>, <<<<"f", "u", "l", "l">>>>}
    \cup {<<Part(c)>> : c \in Criteria}
    \cup {<<Part(Inverted(c))>> : c \in Criteria}
    \cup {<<Part(p[1]), Part(p[2])>> : p \in {q \in PairCriteria \X PairCriteria : q[1][1] # q[2][1]}}
    \cup {<<<<"m", "e", "t", "h", "o", "d", "=", "G", "E", "T">>, <<"c", "o", "v", "e", "r", "a", "g", "e", "=", "o", "k">>, <<"s", "i", "z", "e", "=", "0", "-", "3">>>>, <<<<"m", "e", "t", "h", "o", "d", "=", "g", "e", "t">>, <<"-", "-", "n", "o", "-", "b", "o", "d", "y">>, <<"u", "r", "l", "=", "!", "/", "b">>>>}

\* filters[key] = value
DictSet(d, key, value) ==
    IF \E i \in DOMAIN d : d[i][1] = key
    THEN [i \in DOMAIN d |-> IF d[i][1] = key THEN <<key, value>> ELSE d[i]]
    ELSE Append(d, <<key, value>>)

\* parse_filters: key, value = part.split('=', 1) for each part holding '='
RECURSIVE ParseParts(_, _)
ParseParts(d, parts) ==
    IF parts = <<>> THEN d
    ELSE LET part == Head(parts)
             i == Find(part, "=")
         IN  IF i = 0 THEN ParseParts(d, Tail(parts))
             ELSE ParseParts(DictSet(d, SubSeq(part, 1, i - 1), SubSeq(part, i + 1, Len(part))),
                             Tail(parts))

parse_filters(parts) == ParseParts(<<>>, parts)

(***************************************************************************)
(* The record set as the shell reads it.  LogShell calls get_all_filenames,*)
(* get_exchange_data and count_files, which app/models.py does not have:   *)
(* they are the names in insertion order, the lookup by id and the count.  *)
(***************************************************************************)
\* LogsData.get_exchange_by_id: the KeyError is caught and None returned
get_exchange_by_id(logs, exchange_id) ==
    IF exchange_id \in DOMAIN logs.data
    THEN [is_none |-> FALSE, value |-> logs.data[exchange_id]]
    ELSE [is_none |-> TRUE, value |-> <<>>]

get_all_filenames(logs) == logs.keys

get_exchange_data(logs, filename) == get_exchange_by_id(logs, filename)

count_files(logs) == Len(logs.keys)

(***************************************************************************)
(* app/utils.py: extract_endpoints, the named groups of the summary        *)
(***************************************************************************)
\* the name of the group of a record: the "name" of a request body that is a JSON
\* object, the path of the url when there is no body, the body is no JSON or the
\* object has no "name", and 'unknown' when the body is JSON but no object
GroupName(data) ==
    IF data.requestBody.kind \in {"None", "empty", "text"} THEN extract_path_from_url(data.url)
    ELSE IF data.requestBody.kind = "array" THEN <<"u", "n", "k", "n", "o", "w", "n">>
    ELSE IF data.requestBody.has_name THEN data.requestBody.name
    ELSE extract_path_from_url(data.url)

\* the first content-type header's first value, 'unknown' without one
RawContentType(data) ==
    IF ContentTypeHeaders(data.responseHeaders) # <<>>
       /\ ContentTypeHeaders(data.responseHeaders)[1].values # <<>>
    THEN ContentTypeHeaders(data.responseHeaders)[1].values[1]
    ELSE <<"u", "n", "k", "n", "o", "w", "n">>

NewGroup(data) ==
    [status_codes |-> {}, coverage |-> {}, response_lengths |-> <<>>, content_types |-> {},
     requesters |-> {}, methods |-> {}, full_url |-> data.url, endpoints |-> {}]

\* one pass of the loop of extract_endpoints
ExtractEndpoint(groups, data) ==
    LET Added(name, old) ==
            [keys |-> IF name \in Range(groups.keys) THEN groups.keys
                      ELSE Append(groups.keys, name),
             data |-> (name :> [old EXCEPT
                          !.status_codes = @ \cup {data.inferredStatusCode},
                          !.coverage = @ \cup {data.coverage},
                          !.response_lengths = Append(@, Len(data.responseBody)),
                          !.methods = @ \cup {data.method},
                          !.endpoints = @ \cup {extract_path_from_url(data.url)},
                          !.content_types = @ \cup {RawContentType(data)},
                          !.requesters = @ \cup {data.requester}]) @@ groups.data]
    IN  Added(GroupName(data),
              IF GroupName(data) \in Range(groups.keys) THEN groups.data[GroupName(data)]
              ELSE NewGroup(data))

RECURSIVE ExtractEndpoints(_, _)
ExtractEndpoints(groups, datas) ==
    IF datas = <<>> THEN groups
    ELSE ExtractEndpoints(ExtractEndpoint(groups, Head(datas)), Tail(datas))

extract_endpoints(raw_dict) == ExtractEndpoints([keys |-> <<>>, data |-> <<>>], raw_dict)

(***************************************************************************)
(* The session: records are added, then the shell answers queries          *)
(***************************************************************************)
NoResult == [exc |-> "none", passing |-> {}, filtered_shown |-> FALSE]

Init ==
    /\ logs_data = EmptyLogsData
    /\ filters = <<>>
    /\ result = NoResult
    /\ endpoints_data = EmptyEndpointsInfoData
    /\ zip_ref = <<>>
    /\ errors = <<>>
    /\ pc = "load"
    /\ calls = <<>>
    /\ file_index = <<>>
    /\ index_file = <<>>
    /\ endpoints = <<>>

\* LogsData.add_exchange(exchange)
add_exchange(exchange) ==
    /\ pc = "load"
    /\ exchange.exchangeId \in Range(logs_data.keys) \/ Len(logs_data.keys) < MaxRecords
    /\ logs_data' = LogsData_add_exchange(logs_data, exchange)
    /\ UNCHANGED <<filters, result, endpoints_data, zip_ref, errors, pc, file_index, index_file,
                   endpoints>>

\* self.file_index: the names sorted, numbered from 1
FileIndex(logs) == Sorted(Range(get_all_filenames(logs)))

\* self.index_file: each name's number
IndexFile(logs) ==
    [filename \in Range(get_all_filenames(logs)) |->
        CHOOSE i \in DOMAIN FileIndex(logs) : FileIndex(logs)[i] = filename]

\* the raw_dict of LogShell.__init__: data.dict() of every record, in the order of the names
RawDict(logs) ==
    [i \in DOMAIN get_all_filenames(logs) |->
        get_exchange_data(logs, get_all_filenames(logs)[i]).value]

\* start_shell(logs_data): LogShell(logs_data), then cmdloop
start_shell ==
    /\ pc = "load"
    /\ pc' = "shell"
    /\ file_index' = FileIndex(logs_data)
    /\ index_file' = IndexFile(logs_data)
    /\ endpoints' = extract_endpoints(RawDict(logs_data))
    /\ UNCHANGED <<logs_data, filters, result, endpoints_data, zip_ref, errors, calls>>

\* the outcome of apply_filters(data.dict(), fs) for each record, in the order of
\* the record set: the first exception ends the command
FilterOutcome(logs, fs) ==
    LET Outcome(exchanges, r) ==
            LET raising == {i \in DOMAIN r : r[i].exc # "none"}
            IN  IF raising # {}
                THEN [exc |-> r[CHOOSE i \in raising : \A j \in raising : i <= j].exc,
                      passing |-> {}, filtered_shown |-> FALSE]
                ELSE [exc |-> "none",
                      passing |-> {exchanges[i].exchangeId : i \in {j \in DOMAIN r : r[j].ret}},
                      filtered_shown |-> fs # <<>>]
    IN  Outcome(get_all_exchanges(logs),
                [i \in DOMAIN get_all_exchanges(logs) |->
                    apply_filters(get_all_exchanges(logs)[i], fs)])

\* a panel printed under a title
Panel(title, value) == [title |-> title, value |-> value]

\* count with the filtered count printed as the total
CountPanels_filtered_as_total(logs, fs, outcome) ==
    IF outcome.exc # "none" THEN <<>>
    ELSE <<Panel("Count", Cardinality(outcome.passing))>>
         \o (IF fs # <<>> THEN <<Panel("Filtered Count", Cardinality(outcome.passing))>> ELSE <<>>)

\* the panels of count: the total, and the filtered count `if filters:`; none when
\* the loop over the records raised
CountPanels(logs, fs, outcome) ==
    IF outcome.exc # "none" THEN <<>>
    ELSE <<Panel("Count", count_files(logs))>>
         \o (IF fs # <<>> THEN <<Panel("Filtered Count", Cardinality(outcome.passing))>> ELSE <<>>)

\* count [filters]: the records passing the filter are counted.  An exception
\* of apply_filters is caught nowhere in the shell: it ends cmdloop
do_count(arg) ==
    /\ pc = "shell"
    /\ \E fs \in {parse_filters(arg)} :
          \E outcome \in {FilterOutcome(logs_data, fs)} :
             /\ filters' = fs
             /\ result' = outcome @@ [cmd |-> "count", panels |-> CountPanels(logs_data, fs, outcome)]
             /\ pc' = IF outcome.exc = "none" THEN "count" ELSE "crashed"
    /\ UNCHANGED <<logs_data, endpoints_data, zip_ref, errors, calls, file_index, index_file,
                   endpoints>>

\* the command returns to cmdloop: its locals are gone, the prompt is shown again
cmdloop ==
    /\ pc \in {"count", "list", "summary", "info", "params"}
    /\ pc' = "shell"
    /\ filters' = <<>>
    /\ result' = NoResult
    /\ UNCHANGED <<logs_data, endpoints_data, zip_ref, errors, calls, file_index, index_file,
                   endpoints>>

Next ==
    \/ \E exchange \in Exchanges : add_exchange(exchange) /\ UNCHANGED calls
    \/ start_shell
    \/ \E arg \in FilterArgs : do_count(arg)
    \/ cmdloop

Spec == Init /\ [][Next]_vars

(***************************************************************************)
(* The other commands of the shell                                         *)
(***************************************************************************)
\* bytes_to_kb: f'{bytes_size / 1024:.2f} KB' (the hundredths rounded to nearest;
\* no size drawn here lies on a tie)
bytes_to_kb(bytes_size) ==
    LET Text(h) == IntToStr(h \div 100) \o <<".">> \o IntToStr((h % 100) \div 10)
                   \o IntToStr(h % 10) \o <<" ", "K", "B">>
    IN  Text((bytes_size * 100 + 512) \div 1024)

\* the content type column of list: the first content-type header that has values
ListContentType(data) ==
    LET WithValues(found) ==
            IF found = <<>> THEN <<"u", "n", "k", "n", "o", "w", "n">> ELSE clean_content_type(found[1].values[1])
    IN  WithValues(SelectSeq(ContentTypeHeaders(data.responseHeaders),
                             LAMBDA header : header.values # <<>>))

\* table.add_row of list
ListRow(num, data) ==
    [num |-> IntToStr(num), endpoint |-> extract_path_from_url(data.url), method |-> data.method,
     status_code |-> IntToStr(data.inferredStatusCode), coverage |-> data.coverage,
     content_type |-> ListContentType(data), response_size |-> bytes_to_kb(Len(data.responseBody)),
     requester |-> data.requester]

\* the loop of list over file_index.items(), from number num on
RECURSIVE ListRows(_, _, _, _)
ListRows(logs, index, fs, num) ==
    IF num > Len(index) THEN [exc |-> "none", rows |-> <<>>]
    ELSE LET Step(data, r) ==
                 IF r.exc # "none" THEN [exc |-> r.exc, rows |-> <<>>]
                 ELSE LET Rest(rest) ==
                              IF rest.exc # "none" \/ ~r.ret THEN rest
                              ELSE [rest EXCEPT !.rows = <<ListRow(num, data)>> \o @]
                      IN  Rest(ListRows(logs, index, fs, num + 1))
         IN  Step(get_exchange_data(logs, index[num]).value,
                  apply_filters(get_exchange_data(logs, index[num]).value, fs))

\* list [filters]
do_list(arg) ==
    /\ pc = "shell"
    /\ \E fs \in {parse_filters(arg)} :
          \E listed \in {ListRows(logs_data, file_index, fs, 1)} :
             /\ filters' = fs
             /\ result' =
                   [cmd |-> "list", exc |-> listed.exc, rows |-> listed.rows,
                    panels |-> IF listed.exc = "none" /\ fs # <<>>
                               THEN <<Panel("Filtered Results",
                                            <<Len(listed.rows), count_files(logs_data)>>)>>
                               ELSE <<>>]
             /\ pc' = IF listed.exc = "none" THEN "list" ELSE "crashed"
    /\ UNCHANGED <<logs_data, endpoints_data, zip_ref, errors, calls, file_index, index_file,
                   endpoints>>

\* LogShell.MAX_ENDPOINT_DISPLAY_LENGTH, LogShell.TRUNCATED_ENDPOINT_LENGTH
MAX_ENDPOINT_DISPLAY_LENGTH == 50
TRUNCATED_ENDPOINT_LENGTH == 47

\* _generate_group_ids: A, B, ..., Z, AA, AB, ... for the position of the name
RECURSIVE GroupId(_)
GroupId(temp_id) ==
    IF temp_id < 0 THEN <<>>
    ELSE GroupId((temp_id \div 26) - 1) \o <<UpperCase[(temp_id % 26) + 1]>>

\* the name _count_requests_by_group gives a record: body_json.get raises
\* AttributeError when the request body is JSON but no object
CountedName(data) ==
    IF data.requestBody.kind = "array" THEN Raise("AttributeError")
    ELSE Return(GroupName(data))

\* _count_requests_by_group: the loop over the records, the counts so far in acc
RECURSIVE CountRequests(_, _, _)
CountRequests(acc, datas, fs) ==
    IF datas = <<>> THEN acc
    ELSE LET Step(r, name) ==
                 IF r.exc # "none" THEN [acc EXCEPT !.exc = r.exc]
                 ELSE IF ~r.ret THEN CountRequests(acc, Tail(datas), fs)
                 ELSE IF name.exc # "none" THEN [acc EXCEPT !.exc = name.exc]
                 ELSE CountRequests(
                          [acc EXCEPT
                             !.request_counts =
                                 (name.ret :> (IF name.ret \in DOMAIN @ THEN @[name.ret] ELSE 0) + 1)
                                 @@ @,
                             !.filtered_groups = @ \cup {name.ret}],
                          Tail(datas), fs)
         IN  Step(apply_filters(Head(datas), fs), CountedName(Head(datas)))

_count_requests_by_group(logs, fs) ==
    CountRequests([exc |-> "none", request_counts |-> <<>>, filtered_groups |-> {}],
                  RawDict(logs), fs)

\* the endpoints column: cut to 47 characters and '...' when longer than 50, unless full
EndpointsDisplay(group, show_full_urls) ==
    LET Cut(endpoints_display) ==
            IF ~show_full_urls /\ Len(endpoints_display) > MAX_ENDPOINT_DISPLAY_LENGTH
            THEN SubSeq(endpoints_display, 1, TRUNCATED_ENDPOINT_LENGTH) \o <<".", ".", ".">>
            ELSE endpoints_display
    IN  Cut(Join(Sorted(group.endpoints)))

\* table.add_row of summary for the name at position k of the sorted names
SummaryRow(groups, names, k, counted, show_full_urls) ==
    [id |-> GroupId(k - 1), name |-> names[k],
     endpoints |-> EndpointsDisplay(groups.data[names[k]], show_full_urls),
     methods |-> Join(Sorted(groups.data[names[k]].methods)),
     status_codes |-> Join(Sorted({IntToStr(code) : code \in groups.data[names[k]].status_codes})),
     request_count |-> IntToStr(IF names[k] \in DOMAIN counted.request_counts
                                THEN counted.request_counts[names[k]] ELSE 0)]

\* the rows of summary, by position of the name: every group, or with a filter
\* the groups of filtered_groups
SummaryRows(groups, fs, counted, show_full_urls) ==
    LET Rows(names) ==
            [k \in {i \in DOMAIN names : fs = <<>> \/ names[i] \in counted.filtered_groups} |->
                SummaryRow(groups, names, k, counted, show_full_urls)]
    IN  Rows(Sorted(Range(groups.keys)))

\* what summary prints: nothing when the count of the requests raised
SummaryOutcome(logs, groups, show_full_urls, fs) ==
    LET Printed(counted) ==
            IF counted.exc # "none"
            THEN [cmd |-> "summary", exc |-> counted.exc, rows |-> <<>>, tip |-> FALSE,
                  panels |-> <<>>]
            ELSE [cmd |-> "summary", exc |-> "none",
                  rows |-> SummaryRows(groups, fs, counted, show_full_urls),
                  tip |-> ~show_full_urls,
                  panels |-> IF fs # <<>>
                             THEN <<Panel("Filtered Results",
                                          <<Cardinality(counted.filtered_groups),
                                            Len(groups.keys)>>)>>
                             ELSE <<>>]
    IN  Printed(_count_requests_by_group(logs, fs))

\* summary with the cut endpoints text stored back into the groups
do_summary_cutting_groups(arg) ==
    /\ pc = "shell"
    /\ \E show_full_urls \in {arg # <<>> /\ Lower(arg[1]) = <<"f", "u", "l", "l">>} :
       \E fs \in {parse_filters(IF show_full_urls THEN Tail(arg) ELSE arg)} :
       \E printed \in {SummaryOutcome(logs_data, endpoints, show_full_urls, fs)} :
          /\ filters' = fs
          /\ result' = printed
          /\ pc' = IF printed.exc = "none" THEN "summary" ELSE "crashed"
          /\ endpoints' =
                [endpoints EXCEPT !.data =
                    [name \in DOMAIN @ |->
                        [endpoints.data[name] EXCEPT
                            !.endpoints =
                                {EndpointsDisplay(endpoints.data[name], show_full_urls)}]]]
    /\ UNCHANGED <<logs_data, endpoints_data, zip_ref, errors, calls, file_index, index_file>>

\* summary [full] [filters]
do_summary(arg) ==
    /\ pc = "shell"
    /\ \E show_full_urls \in {arg # <<>> /\ Lower(arg[1]) = <<"f", "u", "l", "l">>} :
       \E fs \in {parse_filters(IF show_full_urls THEN Tail(arg) ELSE arg)} :
       \E printed \in {SummaryOutcome(logs_data, endpoints, show_full_urls, fs)} :
          /\ filters' = fs
          /\ result' = printed
          /\ pc' = IF printed.exc = "none" THEN "summary" ELSE "crashed"
    /\ UNCHANGED <<logs_data, endpoints_data, zip_ref, errors, calls, file_index, index_file,
                   endpoints>>

\* int(s) of a word that may carry a sign: a run of digits, or '+' or '-' and a run
\* of digits (no blank or underscore occurs in the words drawn); str.isdigit is
\* true of the run of digits only
IsIntLiteral(s) == IsInt(s) \/ (Len(s) >= 2 /\ s[1] \in {"+", "-"} /\ IsInt(Tail(s)))

IntValue(s) ==
    IF s[1] = "-" THEN 0 - ParseInt(Tail(s))
    ELSE IF s[1] = "+" THEN ParseInt(Tail(s))
    ELSE ParseInt(s)

\* the lookup with the numbers of the index counted from 0
LookUp_zero_based(logs, index, file_id) ==
    IF IsIntLiteral(file_id)
    THEN IF IntValue(file_id) + 1 \in DOMAIN index
         THEN [kind |-> "found", filename |-> index[IntValue(file_id) + 1]]
         ELSE [kind |-> "number_not_found", filename |-> <<>>]
    ELSE IF file_id \in Range(get_all_filenames(logs))
         THEN [kind |-> "found", filename |-> file_id]
         ELSE [kind |-> "file_not_found", filename |-> <<>>]

\* the lookup of _display_file_info and of params: int(file_id) is looked up in
\* file_index, any other word among the names
LookUp(logs, index, file_id) ==
    IF IsIntLiteral(file_id)
    THEN IF IntValue(file_id) \in DOMAIN index
         THEN [kind |-> "found", filename |-> index[IntValue(file_id)]]
         ELSE [kind |-> "number_not_found", filename |-> <<>>]
    ELSE IF file_id \in Range(get_all_filenames(logs))
         THEN [kind |-> "found", filename |-> file_id]
         ELSE [kind |-> "file_not_found", filename |-> <<>>]

\* what a command prints for a file_id it does not show
NotShown(kind, file_id, exc) ==
    [exc |-> exc, kind |-> kind, file_id |-> file_id, filename |-> <<>>, file_num |-> 0,
     data |-> <<>>, show_bodies |-> FALSE, parameters |-> <<>>]

\* the lookup, then the record and the filter: the record to show, or the message
Selected(logs, index, numbers, file_id, fs) ==
    LET Found(f) ==
            IF f.kind # "found" THEN NotShown(f.kind, file_id, "none")
            ELSE LET Data(d) ==
                         IF d.is_none THEN NotShown("missing", file_id, "none")
                         ELSE LET Filtered(r) ==
                                      IF r.exc # "none" THEN NotShown("raised", file_id, r.exc)
                                      ELSE IF ~r.ret THEN NotShown("no_match", file_id, "none")
                                      ELSE [exc |-> "none", kind |-> "shown", file_id |-> file_id,
                                            filename |-> f.filename,
                                            file_num |-> numbers[f.filename],
                                            data |-> d.value, show_bodies |-> FALSE,
                                            parameters |-> <<>>]
                              IN  Filtered(apply_filters(d.value, fs))
                 IN  Data(get_exchange_data(logs, f.filename))
    IN  Found(LookUp(logs, index, file_id))

\* _display_file_info: the bodies are shown unless --no-body was given
_display_file_info(logs, index, numbers, file_id, fs, show_bodies) ==
    LET Bodies(selected) ==
            [selected EXCEPT !.show_bodies = show_bodies /\ selected.kind = "shown"]
    IN  Bodies(Selected(logs, index, numbers, file_id, fs))

\* parts.remove('--no-body'): the first one is removed
RemoveFirst(parts, word) ==
    IF word \notin Range(parts) THEN parts
    ELSE SubSeq(parts, 1, Find(parts, word) - 1) \o SubSeq(parts, Find(parts, word) + 1, Len(parts))

\* the number of leading parts that are digits only
RECURSIVE LeadingDigits(_)
LeadingDigits(parts) ==
    IF parts = <<>> \/ ~IsInt(Head(parts)) THEN 0 ELSE 1 + LeadingDigits(Tail(parts))

\* _parse_file_ids_and_filters: int(parts[0]) decides the branch, isdigit() which
\* parts are file ids
_parse_file_ids_and_filters(parts) ==
    IF parts # <<>> /\ IsIntLiteral(parts[1])
    THEN [file_ids |-> SubSeq(parts, 1, LeadingDigits(parts)),
          filter_arg |-> SubSeq(parts, LeadingDigits(parts) + 1, Len(parts)), usage |-> FALSE]
    ELSE IF parts # <<>>
    THEN [file_ids |-> <<parts[1]>>, filter_arg |-> Tail(parts), usage |-> FALSE]
    ELSE [file_ids |-> <<>>, filter_arg |-> <<>>, usage |-> TRUE]

\* the loop of info over file_ids: an exception ends it
RECURSIVE InfoEach(_, _, _, _, _, _)
InfoEach(logs, index, numbers, file_ids, fs, show_bodies) ==
    IF file_ids = <<>> THEN <<>>
    ELSE LET Shown(shown) ==
                 IF shown.exc # "none" THEN <<shown>>
                 ELSE <<shown>> \o InfoEach(logs, index, numbers, Tail(file_ids), fs, show_bodies)
         IN  Shown(_display_file_info(logs, index, numbers, Head(file_ids), fs, show_bodies))

\* the exception that ended the loop, "none" when it ran to its end
Raised(shown) == IF shown = <<>> THEN "none" ELSE shown[Len(shown)].exc

\* info <number/filename> [filters], info <number1> <number2> ..., option --no-body
do_info(arg) ==
    /\ pc = "shell"
    /\ \E parsed \in {_parse_file_ids_and_filters(RemoveFirst(arg, <<"-", "-", "n", "o", "-", "b", "o", "d", "y">>))} :
       \E fs \in {parse_filters(parsed.filter_arg)} :
       \E shown \in {InfoEach(logs_data, file_index, index_file, parsed.file_ids, fs,
                              <<"-", "-", "n", "o", "-", "b", "o", "d", "y">> \notin Range(arg))} :
          /\ filters' = IF parsed.file_ids = <<>> THEN <<>> ELSE fs
          /\ result' = [cmd |-> "info", exc |-> Raised(shown),
                        usage |-> arg = <<>> \/ parsed.usage, shown |-> shown]
          /\ pc' = IF Raised(shown) = "none" THEN "info" ELSE "crashed"
    /\ UNCHANGED <<logs_data, endpoints_data, zip_ref, errors, calls, file_index, index_file,
                   endpoints>>

\* key, value = param.split('=', 1) for each param that holds '='
UrlParameters(params) ==
    [i \in DOMAIN SelectSeq(params, LAMBDA param : "=" \in Range(param)) |->
        LET KeyValue(param) ==
                <<SubSeq(param, 1, Find(param, "=") - 1),
                  SubSeq(param, Find(param, "=") + 1, Len(param))>>
        IN  KeyValue(SelectSeq(params, LAMBDA param : "=" \in Range(param))[i])]

\* the rows of the request headers that have values
HeaderParameters(request_headers) ==
    [i \in DOMAIN SelectSeq(request_headers, LAMBDA header : header.values # <<>>) |->
        LET Row(header) == <<<<"H", "e", "a", "d", "e", "r", ":", " ">> \o header.name, header.values[1]>>
        IN  Row(SelectSeq(request_headers, LAMBDA header : header.values # <<>>)[i])]

\* the rows of the request body: the items of a JSON object (of which the record
\* keeps "name"), the body itself when it is no JSON; body_json.items() raises
\* AttributeError when the body is JSON but no object
BodyParameters(request_body) ==
    IF request_body.kind \in {"None", "empty"} THEN [exc |-> "none", ret |-> <<>>]
    ELSE IF request_body.kind = "array" THEN [exc |-> "AttributeError", ret |-> <<>>]
    ELSE IF request_body.kind = "text" THEN [exc |-> "none", ret |-> <<<<<<"B", "o", "d", "y">>, request_body>>>>]
    ELSE [exc |-> "none",
          ret |-> IF request_body.has_name THEN <<<<<<"B", "o", "d", "y", ":", " ", "n", "a", "m", "e">>, request_body.name>>>>
                  ELSE <<>>]

\* extract_request_parameters
extract_request_parameters(data) ==
    LET Parameters(body) ==
            IF body.exc # "none" THEN body
            ELSE [exc |-> "none",
                  ret |-> (IF "?" \in Range(DataGet(data, "url", <<>>))
                           THEN UrlParameters(Split(Split(data.url, "?")[2], "&"))
                           ELSE <<>>)
                          \o HeaderParameters(DataGet(data, "requestHeaders", <<>>))
                          \o body.ret]
    IN  Parameters(BodyParameters(DataGet(data, "requestBody", NoRequestBody)))

\* params <number/filename> [filters]
do_params(arg) ==
    /\ pc = "shell"
    /\ \E fs \in {IF arg = <<>> THEN <<>> ELSE parse_filters(Tail(arg))} :
       \E selected \in {IF arg = <<>> THEN NotShown("usage", <<>>, "none")
                        ELSE Selected(logs_data, file_index, index_file, arg[1], fs)} :
       \E parameters \in {IF selected.kind = "shown"
                          THEN extract_request_parameters(selected.data)
                          ELSE [exc |-> selected.exc, ret |-> <<>>]} :
          /\ filters' = fs
          /\ result' = [cmd |-> "params", exc |-> parameters.exc, usage |-> arg = <<>>,
                        shown |-> <<[selected EXCEPT !.exc = parameters.exc,
                                                     !.parameters = parameters.ret]>>]
          /\ pc' = IF parameters.exc = "none" THEN "params" ELSE "crashed"
    /\ UNCHANGED <<logs_data, endpoints_data, zip_ref, errors, calls, file_index, index_file,
                   endpoints>>

(***************************************************************************)
(* Inputs: the command lines typed at the prompt, as their words           *)
(***************************************************************************)
ShellFilters ==
    {<<>>, <<<<"m", "e", "t", "h", "o", "d", "=", "G", "E", "T">>>>, <<<<"m", "e", "t", "h", "o", "d", "=", "!", "G", "E", "T">>>>, <<<<"u", "r", "l", "=", "(">>>>, <<<<"s", "i", "z", "e", "=", "1", "-", "2">>>>,
     <<<<"e", "n", "d", "p", "o", "i", "n", "t", "=", "n", "1">>>>, <<<<"p", "a", "t", "h", "=", "/", "b">>>>, <<<<"f", "o", "o", "=", "x">>>>, <<<<"m", "e", "t", "h", "o", "d", "=", "G", "E", "T">>, <<"c", "o", "v", "e", "r", "a", "g", "e", "=", "o", "k">>>>,
     <<<<"c", "o", "n", "t", "e", "n", "t", "_", "t", "y", "p", "e", "=", "u", "n", "k", "n", "o", "w", "n">>>>, <<<<"c", "o", "n", "t", "e", "n", "t", "_", "t", "y", "p", "e", "=", "t", "e", "x", "t">>>>}

SummaryArgs == ShellFilters \cup {<<<<"f", "u", "l", "l">>>> \o fs : fs \in {<<>>, <<<<"m", "e", "t", "h", "o", "d", "=", "G", "E", "T">>>>, <<<<"u", "r", "l", "=", "(">>>>}}
                            \cup {<<<<"F", "U", "L", "L">>>>}

FileIds == {<<"1">>, <<"2">>, <<"9">>, <<"1", ".", "j", "s", "o", "n">>, <<"9", ".", "j", "s", "o", "n">>, <<"-", "1">>}

InfoArgs ==
    {<<>>, <<<<"-", "-", "n", "o", "-", "b", "o", "d", "y">>>>, <<<<"1">>, <<"2">>>>, <<<<"2">>, <<"1">>, <<"m", "e", "t", "h", "o", "d", "=", "G", "E", "T">>>>, <<<<"1">>, <<"-", "-", "n", "o", "-", "b", "o", "d", "y">>>>,
     <<<<"1">>, <<"u", "r", "l", "=", "(">>>>, <<<<"9">>, <<"1">>>>, <<<<"1", ".", "j", "s", "o", "n">>, <<"2">>>>}
    \cup {<<file_id>> : file_id \in FileIds}

ParamsArgs ==
    {<<>>, <<<<"1">>, <<"m", "e", "t", "h", "o", "d", "=", "G", "E", "T">>>>, <<<<"1">>, <<"u", "r", "l", "=", "(">>>>, <<<<"1">>, <<"2">>>>}
    \cup {<<file_id>> : file_id \in FileIds}

(***************************************************************************)
(* The session with every command of the shell                             *)
(***************************************************************************)
NextShell ==
    \/ \E exchange \in Exchanges : add_exchange(exchange) /\ UNCHANGED calls
    \/ start_shell
    \/ \E arg \in ShellFilters : do_count(arg)
    \/ \E arg \in ShellFilters : do_list(arg)
    \/ \E arg \in SummaryArgs : do_summary(arg)
    \/ \E arg \in InfoArgs : do_info(arg)
    \/ \E arg \in ParamsArgs : do_params(arg)
    \/ cmdloop

SpecShell == Init /\ [][NextShell]_vars

\* the keys of the Filters model (models.py), the keys the filter expression takes
FiltersFields ==
    {<<"m", "e", "t", "h", "o", "d">>, <<"u", "r", "l">>, <<"s", "t", "a", "t", "u", "s", "_", "c", "o", "d", "e">>, <<"i", "n", "f", "e", "r", "r", "e", "d", "_", "s", "t", "a", "t", "u", "s", "_", "c", "o", "d", "e">>, <<"c", "o", "v", "e", "r", "a", "g", "e">>, <<"s", "i", "z", "e">>,
     <<"c", "o", "n", "t", "e", "n", "t", "_", "t", "y", "p", "e">>, <<"r", "e", "q", "u", "e", "s", "t", "e", "r">>, <<"p", "a", "t", "h">>}

\* Filters(): every field None
NoFilters == [field \in FiltersFields |-> None]

\* Filters.from_arg: the loop over the parts, the filters and the keys reported as
\* invalid so far in acc
RECURSIVE FromParts(_, _)
FromParts(acc, parts) ==
    IF parts = <<>> THEN acc
    ELSE LET Part_(key, value) ==
                 IF Find(Head(parts), "=") = 0 THEN FromParts(acc, Tail(parts))
                 ELSE IF key \in FiltersFields
                 THEN FromParts([acc EXCEPT !.filters[key] = Some(value)], Tail(parts))
                 ELSE FromParts([acc EXCEPT !.invalid = Append(@, key)], Tail(parts))
         IN  Part_(SubSeq(Head(parts), 1, Find(Head(parts), "=") - 1),
                   SubSeq(Head(parts), Find(Head(parts), "=") + 1, Len(Head(parts))))

from_arg(parts) == FromParts([filters |-> NoFilters, invalid |-> <<>>], parts)

\* Filters.at_least_one_filter
at_least_one_filter(self) == \E field \in FiltersFields : ~self[field].is_none

(***************************************************************************)
(* The filter expression parsed into the Filters model                     *)
(***************************************************************************)
ParserArgs == FilterArgs \cup {<<<<"i", "n", "_", "s", "c", "h", "e", "m", "a", "=", "t", "r", "u", "e">>>>, <<<<"i", "n", "_", "s", "c", "h", "e", "m", "a", "=", "t", "r", "u", "e">>, <<"m", "e", "t", "h", "o", "d", "=", "G", "E", "T">>>>}

\* Filters.from_arg(arg)
parse(arg) ==
    /\ pc = "load"
    /\ pc' = "parsed"
    /\ \E parsed \in {from_arg(arg)} :
          /\ filters' = parsed.filters
          /\ result' = [cmd |-> "from_arg", arg |-> arg, invalid |-> parsed.invalid,
                        at_least_one_filter |-> at_least_one_filter(parsed.filters)]
    /\ UNCHANGED <<logs_data, endpoints_data, zip_ref, errors, calls, file_index, index_file,
                   endpoints>>

NextParse == \E arg \in ParserArgs : parse(arg)

SpecParse == Init /\ [][NextParse]_vars

(***************************************************************************)
(* The parameters derived from a record: inputs are the url and the path   *)
(* template of the record                                                  *)
(***************************************************************************)
ParamUrls ==
    {<<"/", "a", "/", "1">>, <<"/", "a", "/", "1", "?", "k", "=", "v">>, <<"/", "a", "/", "1", "?", "k", "=", "v", "&", "x", "=", "y">>, <<"/", "a", "/", "1", "?", "k">>, <<"/", "a", "/", "1", "?">>, <<"/", "a", "/", "1", "/", "c", "/", "2">>, <<"/", "a", "/", "1", "/", "c", "/", "2", "?", "k", "=", "v">>,
     <<"/", "a">>, <<"h", ":", "/", "/", "s", "/", "a", "/", "1">>, <<"h", ":", "/", "/", "s", "/", "a", "/", "1", "?", "k", "=", "v">>, <<"h", ":", "/", "/", "s", "/", "a", "/", "1", "/", "c", "/", "2">>, <<"/", "u", "s", "e", "r", "s", "/", "4", "2", "?", "a", "c", "t", "i", "v", "e", "=", "t", "r", "u", "e">>}

ParamPaths ==
    {<<"/", "a", "/", "{", "i", "}">>, <<"/", "a", "/", "{", "i", "}", "/", "c", "/", "{", "j", "}">>, <<"/", "a">>, <<"/", "{", "x", "}", "/", "{", "y", "}">>, <<"/", "a", "/", "{", "}">>, <<"/", "a", "/", "v", "{", "i", "}">>, <<"/", "u", "s", "e", "r", "s", "/", "{", "i", "d", "}">>,
     <<"/", "a", "/", "{", "i", "}", "/", "c">>, <<"/", "{", "x", "}">>}

ParamExchanges == {[url |-> u, path |-> p] : u \in ParamUrls, p \in ParamPaths}

\* exchange.pathParams and exchange.queryParams are read
read_params(exchange) ==
    /\ pc = "load"
    /\ pc' = "read"
    /\ result' = [cmd |-> "params_of", exchange |-> exchange,
                  pathParams |-> pathParams(exchange), queryParams |-> queryParams(exchange)]
    /\ UNCHANGED <<logs_data, filters, endpoints_data, zip_ref, errors, calls, file_index,
                   index_file, endpoints>>

NextParams == \E exchange \in ParamExchanges : read_params(exchange)

SpecParams == Init /\ [][NextParams]_vars

(***************************************************************************)
(* _generate_group_ids, loop by loop.  Of the groups only their number     *)
(* matters: the n-th name of sorted(self.endpoints.keys()) gets the n-th   *)
(* id.  result holds the ids made so far and the locals of the while loop. *)
(***************************************************************************)
\* temp_id // 26 without the - 1
NextTempId_no_decrement(temp_id) == temp_id \div 26

\* temp_id = temp_id // 26 - 1
NextTempId(temp_id) == (temp_id \div 26) - 1

\* group_ids = {}
generate_group_ids ==
    /\ pc = "shell"
    /\ pc' = "for"
    /\ result' = [cmd |-> "group_ids", group_ids |-> <<>>, temp_id |-> -1, id_str |-> <<>>]
    /\ UNCHANGED <<logs_data, filters, endpoints_data, zip_ref, errors, calls, file_index,
                   index_file, endpoints>>

\* for current_id, name in enumerate(...): id_str = '', temp_id = current_id
for_next ==
    /\ pc = "for"
    /\ Len(result.group_ids) < MaxGroups
    /\ pc' = "while"
    /\ result' = [result EXCEPT !.temp_id = Len(result.group_ids), !.id_str = <<>>]
    /\ UNCHANGED <<logs_data, filters, endpoints_data, zip_ref, errors, calls, file_index,
                   index_file, endpoints>>

\* while temp_id >= 0: one pass
while_step ==
    /\ pc = "while"
    /\ result.temp_id >= 0
    /\ result' = [result EXCEPT !.id_str = <<UpperCase[(result.temp_id % 26) + 1]>> \o @,
                                !.temp_id = NextTempId(@)]
    /\ UNCHANGED <<logs_data, filters, endpoints_data, zip_ref, errors, calls, file_index,
                   index_file, endpoints, pc>>

\* the while loop is left: group_ids[name] = id_str
while_end ==
    /\ pc = "while"
    /\ result.temp_id < 0
    /\ pc' = "for"
    /\ result' = [result EXCEPT !.group_ids = Append(@, result.id_str)]
    /\ UNCHANGED <<logs_data, filters, endpoints_data, zip_ref, errors, calls, file_index,
                   index_file, endpoints>>

\* the names are exhausted: return group_ids
for_end ==
    /\ pc = "for"
    /\ pc' = "returned"
    /\ UNCHANGED <<logs_data, filters, result, endpoints_data, zip_ref, errors, calls,
                   file_index, index_file, endpoints>>

NextGroupIds ==
    \/ start_shell
    \/ generate_group_ids
    \/ for_next
    \/ while_step
    \/ while_end
    \/ for_end

SpecGroupIds == Init /\ [][NextGroupIds]_vars

(***************************************************************************)
(* An aggregation pass over the record set                                 *)
(***************************************************************************)
\* EndpointsInfoData.from_logs_data(logs_data)
aggregate ==
    /\ pc = "load"
    /\ endpoints_data' = from_logs_data(logs_data)
    /\ pc' = "aggregated"
    /\ UNCHANGED <<logs_data, filters, result, zip_ref, errors, calls, file_index, index_file,
                   endpoints>>

NextAgg ==
    \/ \E exchange \in Exchanges : add_exchange(exchange) /\ UNCHANGED calls
    \/ aggregate

SpecAgg == Init /\ [][NextAgg]_vars

(***************************************************************************)
(* A caller making a sequence of EndpointsInfoData.add_exchange calls,     *)
(* each call noted                                                         *)
(***************************************************************************)
\* endpoints_info_data.add_exchange(exchange)
endpoints_add_exchange(exchange) ==
    /\ pc = "load"
    /\ Len(calls) < MaxCalls
    /\ endpoints_data' = EndpointsInfoData_add_exchange(endpoints_data, exchange)
    /\ calls' = Append(calls, exchange)
    /\ UNCHANGED <<logs_data, filters, result, zip_ref, errors, pc, file_index, index_file,
                   endpoints>>

NextEndpoints == \E exchange \in Exchanges : endpoints_add_exchange(exchange)

SpecEndpoints == Init /\ [][NextEndpoints]_vars

(***************************************************************************)
(* A caller making a sequence of add_exchange calls, each call noted       *)
(***************************************************************************)
NextLoad ==
    \E exchange \in Exchanges :
        /\ Len(calls) < MaxCalls
        /\ add_exchange(exchange)
        /\ calls' = Append(calls, exchange)

SpecLoad == Init /\ [][NextLoad]_vars

(***************************************************************************)
(* app/processor.py: process_zip                                           *)
(*                                                                         *)
(* An archive is the sequence of its entries in namelist() order, each     *)
(* [file_name, json]; json is what json.load makes of the entry:           *)
(* [kind, keys, values], kind "invalid" (json.load raises), "array" (JSON  *)
(* that is no object) or "object" with its keys and the values under them. *)
(***************************************************************************)
\* the fields of Exchange; none has a default, so pydantic requires each
ExchangeFields ==
    {"exchangeId", "path", "requestHeaders", "requestBody", "method", "url",
     "responseHeaders", "responseBody", "responseStatusCode", "scanId", "curl",
     "duration", "coverage", "user", "requester", "inferredStatusCode",
     "inferredScalars", "in_schema"}

\* the keys process_zip reads with exchange_json[key]
JsonKeysRead ==
    {"name", "user", "requester", "inferredStatusCode", "inferredScalars",
     "requestHeaders", "requestBody", "method", "url", "responseHeaders",
     "responseBody", "responseStatusCode", "scanId", "curl", "duration", "coverage"}

\* the keyword arguments process_zip gives Exchange(...): in_schema is commented out
ExchangeKwargs ==
    {"exchangeId", "path", "user", "requester", "inferredStatusCode", "inferredScalars",
     "requestHeaders", "requestBody", "method", "url", "responseHeaders", "responseBody",
     "responseStatusCode", "scanId", "curl", "duration", "coverage"}

\* the body of the for loop of process_zip for one entry: "skip" (no .json name),
\* "error" (an exception, caught and printed) or "added" (logs_data.add_exchange)
ProcessEntry(entry) ==
    IF ~EndsWith(entry.file_name, <<".", "j", "s", "o", "n">>) THEN [kind |-> "skip", exc |-> "none"]
    ELSE IF entry.json.kind = "invalid" THEN [kind |-> "error", exc |-> "JSONDecodeError"]
    ELSE IF entry.json.kind = "array" THEN [kind |-> "error", exc |-> "TypeError"]
    ELSE IF ~(JsonKeysRead \subseteq entry.json.keys) THEN [kind |-> "error", exc |-> "KeyError"]
    ELSE IF Upper(entry.json.values.method) \notin HTTPMethod
         THEN [kind |-> "error", exc |-> "ValueError"]
    ELSE IF ~(ExchangeFields \subseteq ExchangeKwargs)
         THEN [kind |-> "error", exc |-> "ValidationError"]
    ELSE [kind |-> "added", exc |-> "none"]

\* the Exchange process_zip builds of an entry
EntryExchange(entry) ==
    Exchange(entry.file_name, [entry.json.values EXCEPT !.method = Upper(@)])

\* the for loop that ends at the first exception instead of going on
ProcessEntries_abort_on_error(state, entries) ==
    LET failing == {i \in DOMAIN entries : ProcessEntry(entries[i]).kind = "error"}
    IN  IF failing = {} THEN state
        ELSE [logs |-> state.logs,
              errors |-> Append(state.errors,
                                entries[CHOOSE i \in failing : \A j \in failing : i <= j].file_name)]

\* the for loop of process_zip over zip_ref.namelist()
RECURSIVE ProcessEntries(_, _)
ProcessEntries(state, entries) ==
    IF entries = <<>> THEN state
    ELSE LET entry == Head(entries)
             outcome == ProcessEntry(entry)
             next == CASE outcome.kind = "skip" -> state
                       [] outcome.kind = "error" ->
                            [state EXCEPT !.errors = Append(@, entry.file_name)]
                       [] outcome.kind = "added" ->
                            [state EXCEPT !.logs = LogsData_add_exchange(@, EntryExchange(entry))]
         IN  ProcessEntries(next, Tail(entries))

(***************************************************************************)
(* Inputs: archives                                                        *)
(***************************************************************************)
FileNames == {<<"1", ".", "j", "s", "o", "n">>, <<"2", ".", "j", "s", "o", "n">>, <<"r", ".", "t", "x", "t">>}

AllJsonKeys == JsonKeysRead \cup {"in_schema"}

SomeProfile == CHOOSE p \in Profiles : p.url = <<"/", "a", "/", "2">>

JsonObject(keys, method) ==
    [kind |-> "object", keys |-> keys, values |-> [SomeProfile EXCEPT !.method = method]]

JsonValues ==
    {JsonObject(AllJsonKeys, <<"P", "O", "S", "T">>), JsonObject(AllJsonKeys, <<"g", "e", "t">>),
     JsonObject(JsonKeysRead, <<"G", "E", "T">>),
     JsonObject(AllJsonKeys \ {"name"}, <<"G", "E", "T">>), JsonObject(AllJsonKeys \ {"method"}, <<"G", "E", "T">>),
     JsonObject(AllJsonKeys, <<"F", "E", "T", "C", "H">>),
     [kind |-> "array", keys |-> {}, values |-> SomeProfile],
     [kind |-> "invalid", keys |-> {}, values |-> SomeProfile]}

Entries == {[file_name |-> n, json |-> j] : n \in FileNames, j \in JsonValues}

\* the archives of exactly n entries, no two of the same name
RECURSIVE ArchivesOf(_)
ArchivesOf(n) ==
    IF n = 0 THEN {<<>>}
    ELSE UNION {{Append(a, e) : e \in {f \in Entries : \A i \in DOMAIN a : a[i].file_name # f.file_name}}
                : a \in ArchivesOf(n - 1)}

Archives == UNION {ArchivesOf(n) : n \in 0..MaxEntries}

(***************************************************************************)
(* Ingestion of an archive                                                 *)
(***************************************************************************)
\* process_zip(zip_path)
process_zip(archive) ==
    /\ pc = "load"
    /\ zip_ref' = archive
    /\ LET done == ProcessEntries([logs |-> EmptyLogsData, errors |-> <<>>], archive)
       IN  /\ logs_data' = done.logs
           /\ errors' = done.errors
    /\ pc' = "processed"
    /\ UNCHANGED <<filters, result, endpoints_data, calls, file_index, index_file, endpoints>>

NextIngest == \E archive \in Archives : process_zip(archive)

SpecIngest == Init /\ [][NextIngest]_vars

(***************************************************************************)
(* Claims about the filter engine                                          *)
(***************************************************************************)
AllIds == get_all_exchange_ids(logs_data)

\* C1: with a filter of zero criteria every record of the record set passes
\* apply_filters: the command completes and the filtered set is the record set.
C1_EmptyFilterIsIdentity ==
    (pc \in {"count", "crashed"} /\ filters = <<>>) =>
        (pc = "count" /\ result.exc = "none" /\ result.passing = AllIds)

C1_Witness ==
    pc = "count" /\ filters = <<>> /\ Cardinality(result.passing) >= 2

\* C2: for a filter F of one criterion (a key the filter expression recognizes,
\* a value that is not itself negated), the records passing F with its value
\* prefixed by "!" are exactly the records of the record set that do not pass F.
C2_InversionIsComplement ==
    (pc = "count" /\ Len(filters) = 1 /\ filters[1][1] \in FiltersFields
        /\ ~StartsWith(filters[1][2], <<"!">>)) =>
        LET inverted == FilterOutcome(logs_data, <<Inverted(filters[1])>>)
        IN  inverted.exc = "none" /\ inverted.passing = AllIds \ result.passing

\* C3: a size criterion whose value, the negation marker stripped, is no
\* well-formed min-max range excludes no record, negated or not.
C3_MalformedSizeNeverExcludes ==
    \A v \in MalformedSizes :
        (pc \in {"count", "crashed"}
            /\ filters \in {<< <<<<"s", "i", "z", "e">>, v>> >>, << <<<<"s", "i", "z", "e">>, <<"!">> \o v>> >>}) =>
            (pc = "count" /\ result.passing = AllIds)

\* the record passes the filter made of criterion i of the filters alone
PassesAlone(exchange, i) ==
    LET r == apply_filters(exchange, <<filters[i]>>)
    IN  r.exc = "none" /\ r.ret

\* C6: a record passes a filter of several criteria if and only if it passes each
\* of the criteria taken alone.
C6_ConjunctionOfCriteria ==
    pc = "count" =>
        \A id \in AllIds :
            id \in result.passing <=> \A i \in DOMAIN filters : PassesAlone(logs_data.data[id], i)

C6_Witness ==
    /\ pc = "count" /\ Len(filters) >= 2
    /\ result.passing # {} /\ result.passing # AllIds
    /\ \E id \in AllIds \ result.passing :
           PassesAlone(logs_data.data[id], 1) /\ ~PassesAlone(logs_data.data[id], 2)

\* the text of the range lo-hi
SizeRange(lo, hi) == IntToStr(lo) \o <<"-">> \o IntToStr(hi)

\* C7: under the size criterion lo-hi with lo <= hi a record passes if and only if
\* lo <= len(responseBody) <= hi.
C7_SizeRangeInclusive ==
    \A lo \in 0..MaxSize, hi \in (0..MaxSize) \cup {10} :
        (pc \in {"count", "crashed"} /\ lo <= hi /\ filters = << <<<<"s", "i", "z", "e">>, SizeRange(lo, hi)>> >>) =>
            /\ pc = "count"
            /\ \A id \in AllIds :
                  id \in result.passing <=>
                      (lo <= Len(logs_data.data[id].responseBody)
                       /\ Len(logs_data.data[id].responseBody) <= hi)

C7_Witness ==
    \E lo \in 1..MaxSize, hi \in 1..MaxSize :
        /\ pc = "count" /\ lo < hi /\ filters = << <<<<"s", "i", "z", "e">>, SizeRange(lo, hi)>> >>
        /\ \E id \in result.passing : Len(logs_data.data[id].responseBody) = hi
        /\ \E id \in AllIds \ result.passing : Len(logs_data.data[id].responseBody) = hi + 1

\* C8: evaluating a filter is never fatal: whatever value is given for a key,
\* apply_filters yields a boolean and the command completes.
C8_FilterNeverFatal == pc # "crashed" /\ result.exc = "none"

(***************************************************************************)
(* Claims about the endpoint aggregator                                    *)
(***************************************************************************)
AllKeys == get_all_endpoint_paths(endpoints_data)

RECURSIVE SumCounts(_)
SumCounts(keys) ==
    IF keys = <<>> THEN 0
    ELSE EndpointInfo_count_exchanges(endpoints_data.data[Head(keys)]) + SumCounts(Tail(keys))

\* C9: after an aggregation pass two records are members of the same aggregate if
\* and only if they have the same path and the same method; every record id is a
\* member of exactly one aggregate, and the member counts sum to the number of
\* records.
C9_AggregateIdentity ==
    pc = "aggregated" =>
        /\ \A id1, id2 \in AllIds :
              (\E key \in AllKeys : {id1, id2} \subseteq endpoints_data.data[key].exchange_ids)
              <=> (logs_data.data[id1].path = logs_data.data[id2].path
                   /\ logs_data.data[id1].method = logs_data.data[id2].method)
        /\ \A id \in AllIds :
              Cardinality({key \in AllKeys : id \in endpoints_data.data[key].exchange_ids}) = 1
        /\ SumCounts(endpoints_data.keys) = count_exchanges(logs_data)

C9_Witness ==
    /\ pc = "aggregated"
    /\ Cardinality(AllKeys) = 2
    /\ \E k1, k2 \in AllKeys : k1[1] = k2[1] /\ k1[2] # k2[2]

\* the records of the record set with this path and method, in the record set's order
Members(key) ==
    SelectSeq(get_all_exchanges(logs_data), LAMBDA e : e.path = key[1] /\ e.method = key[2])

\* C10: every aggregate's member ids, status code sets, coverage set, content type
\* set, requester set and response length sequence are those of exactly the
\* records with the aggregate's path and method, and there is an aggregate for
\* every (path, method) of a record.
C10_AggregateStatistics ==
    pc = "aggregated" =>
        /\ AllKeys = {<<logs_data.data[id].path, logs_data.data[id].method>> : id \in AllIds}
        /\ \A key \in AllKeys :
              LET info == endpoints_data.data[key]
                  members == Members(key)
              IN  /\ info.exchange_ids = {e.exchangeId : e \in Range(members)}
                  /\ info.status_codes = {e.responseStatusCode : e \in Range(members)}
                  /\ info.inferred_status_codes = {e.inferredStatusCode : e \in Range(members)}
                  /\ info.coverage = {e.coverage : e \in Range(members)}
                  /\ info.content_types =
                        {content_type(e).value : e \in {m \in Range(members) : Truthy(content_type(m))}}
                  /\ info.requesters = {e.requester : e \in Range(members)}
                  /\ info.response_lengths = [i \in DOMAIN members |-> Len(members[i].responseBody)]

C10_Witness ==
    /\ pc = "aggregated"
    /\ \E key \in AllKeys :
          /\ EndpointInfo_count_exchanges(endpoints_data.data[key]) = 2
          /\ Cardinality(endpoints_data.data[key].inferred_status_codes) = 2
          /\ Len(endpoints_data.data[key].response_lengths) = 2
          /\ endpoints_data.data[key].response_lengths[1] > endpoints_data.data[key].response_lengths[2]

(***************************************************************************)
(* Claims about ingestion                                                  *)
(***************************************************************************)
JsonEntries == {i \in DOMAIN zip_ref : EndsWith(zip_ref[i].file_name, <<".", "j", "s", "o", "n">>)}

\* the entry is a JSON object holding every field of the record, its method a
\* standard HTTP method in any case
WellFormed(entry) ==
    /\ entry.json.kind = "object"
    /\ AllJsonKeys \subseteq entry.json.keys
    /\ Upper(entry.json.values.method) \in HTTPMethod

\* C4: of an archive with k well-formed .json entries and m malformed ones,
\* process_zip returns the record set of exactly the k well-formed entries and
\* reports exactly m failures (an empty archive: no record, no failure).
C4_IngestKeepsWellFormed ==
    pc = "processed" =>
        /\ AllIds = {zip_ref[i].file_name : i \in {j \in JsonEntries : WellFormed(zip_ref[j])}}
        /\ Len(errors) = Cardinality({j \in JsonEntries : ~WellFormed(zip_ref[j])})

\* the entry lacks the path or the method, or its method is no HTTP method
Violates(entry) ==
    \/ entry.json.kind # "object"
    \/ "name" \notin entry.json.keys
    \/ "method" \notin entry.json.keys
    \/ Upper(entry.json.values.method) \notin HTTPMethod

\* C5: every record process_zip returns has a non-empty id, an uppercase standard
\* HTTP method and a path; a .json entry violating one of these is absent from the
\* record set and has a reported error, and the entries after it are processed
\* all the same (each is in the record set or has a reported error).
C5_IngestedRecordsAreValid ==
    pc = "processed" =>
        /\ \A id \in AllIds :
              /\ id # <<>>
              /\ logs_data.data[id].method \in HTTPMethod
              /\ "path" \in DOMAIN logs_data.data[id]
        /\ \A i \in JsonEntries :
              Violates(zip_ref[i]) =>
                  (zip_ref[i].file_name \notin AllIds /\ zip_ref[i].file_name \in Range(errors))
        /\ \A i \in JsonEntries :
              zip_ref[i].file_name \in AllIds \cup Range(errors)

C5_Witness ==
    /\ pc = "processed" /\ Len(zip_ref) = 2 /\ JsonEntries = {1, 2}
    /\ Violates(zip_ref[1]) /\ ~Violates(zip_ref[2])
    /\ zip_ref[1].file_name \in Range(errors)
    /\ zip_ref[2].file_name \in AllIds \cup Range(errors)

(***************************************************************************)
(* Claims about the record set                                             *)
(***************************************************************************)
\* the positions in calls of the calls with this id
CallsWith(id) == {i \in DOMAIN calls : calls[i].exchangeId = id}

\* C11: after any sequence of add_exchange calls the record set holds, under each
\* id added, the exchange of the last call with that id, holds no other id, and
\* count_exchanges is the number of distinct ids added.
C11_LastWriteWins ==
    /\ get_all_exchange_ids(logs_data) = {calls[i].exchangeId : i \in DOMAIN calls}
    /\ \A id \in get_all_exchange_ids(logs_data) :
          logs_data.data[id] = calls[CHOOSE i \in CallsWith(id) : \A j \in CallsWith(id) : j <= i]
    /\ count_exchanges(logs_data) = Cardinality({calls[i].exchangeId : i \in DOMAIN calls})

C11_Witness ==
    /\ Len(calls) = 3
    /\ calls[1].exchangeId = calls[3].exchangeId /\ calls[1] # calls[3]
    /\ calls[2].exchangeId # calls[1].exchangeId
    /\ count_exchanges(logs_data) = 2

(***************************************************************************)
(* Claims about the commands of the shell                                  *)
(***************************************************************************)
\* C12: once the session has started, no step of it (count, list, summary with or
\* without full, info, params, the return to the prompt) changes the record set,
\* the numbering index or the endpoint groups: they stay as at session start
C12_CommandsReadOnly ==
    [][pc # "load" =>
          /\ logs_data' = logs_data
          /\ file_index' = file_index
          /\ index_file' = index_file
          /\ endpoints' = endpoints]_vars

\* a summary without full has printed a cut endpoints text, and the group still
\* holds the whole endpoint
C12_Witness ==
    /\ pc = "summary"
    /\ result.tip
    /\ \E k \in DOMAIN result.rows :
          /\ Len(result.rows[k].endpoints) = MAX_ENDPOINT_DISPLAY_LENGTH
          /\ EndsWith(result.rows[k].endpoints, <<".", ".", ".">>)
          /\ \E endpoint \in endpoints.data[result.rows[k].name].endpoints :
                Len(endpoint) > MAX_ENDPOINT_DISPLAY_LENGTH

\* the records of the session for which apply_filters(record, fs) is true
PassingRecords(logs, fs) ==
    {id \in get_all_exchange_ids(logs) : apply_filters(logs.data[id], fs) = Return(TRUE)}

\* C13: a count command reports the total, the number of all records whatever the
\* filter, and a filtered total exactly when a criterion was given; the filtered
\* total is the number of records for which apply_filters is true, at most the total
C13_CountTotals ==
    ("cmd" \in DOMAIN result /\ result.cmd = "count") =>
        /\ Len(result.panels) >= 1
        /\ result.panels[1] = Panel("Count", Cardinality(get_all_exchange_ids(logs_data)))
        /\ Len(result.panels) = 2 <=> filters # <<>>
        /\ Len(result.panels) = 2 =>
              /\ result.panels[2].value = Cardinality(PassingRecords(logs_data, filters))
              /\ result.panels[2].value <= result.panels[1].value

\* the numbers of the rows list has printed
RowNumbers(rows) == [k \in DOMAIN rows |-> ParseInt(rows[k].num)]

\* C14: a list command returns exactly the records passing the filter, each once,
\* in strictly ascending order of their number in the index of the sorted names
C14_ListPassingAscending ==
    ("cmd" \in DOMAIN result /\ result.cmd = "list") =>
        /\ pc = "list"
        /\ \A k \in DOMAIN result.rows : RowNumbers(result.rows)[k] \in DOMAIN file_index
        /\ \A k, l \in DOMAIN result.rows :
              k < l => RowNumbers(result.rows)[k] < RowNumbers(result.rows)[l]
        /\ {file_index[RowNumbers(result.rows)[k]] : k \in DOMAIN result.rows}
              = PassingRecords(logs_data, filters)

\* the word names a record of the session: a number of the index, or a name
Present(logs, index, file_id) ==
    IF IsIntLiteral(file_id) THEN IntValue(file_id) \in DOMAIN index
    ELSE file_id \in get_all_exchange_ids(logs)

\* the id the word names
NamedId(index, file_id) ==
    IF IsIntLiteral(file_id) THEN index[IntValue(file_id)] ELSE file_id

\* what the claim says of the lookup whose outcome is shown
LookedUp(logs, index, fs, shown) ==
    IF Present(logs, index, shown.file_id)
    THEN /\ shown.kind \in {"shown", "no_match", "raised"}
         /\ fs = <<>> => shown.kind = "shown"
         /\ shown.kind = "shown" =>
               /\ shown.filename = NamedId(index, shown.file_id)
               /\ shown.data = logs.data[NamedId(index, shown.file_id)]
    ELSE /\ shown.kind \in {"number_not_found", "file_not_found"}
         /\ shown.exc = "none"

\* C15: a lookup by an id that is not in the record set gives a not-found result,
\* raises nothing and leaves the record set as it was; a lookup by an id that is in
\* the record set gives the record under that id (info and params, and
\* get_exchange_by_id itself)
C15_LookupNotFound ==
    [][(pc = "shell" /\ "cmd" \in DOMAIN result' /\ result'.cmd \in {"info", "params"}) =>
          /\ logs_data' = logs_data
          /\ \A k \in DOMAIN result'.shown :
                result'.shown[k].kind # "usage" =>
                    LookedUp(logs_data', file_index', filters', result'.shown[k])
          /\ \A id \in ExchangeIds \cup {<<"9", ".", "j", "s", "o", "n">>} :
                /\ get_exchange_by_id(logs_data', id).is_none
                      <=> id \notin get_all_exchange_ids(logs_data')
                /\ ~get_exchange_by_id(logs_data', id).is_none =>
                      get_exchange_by_id(logs_data', id).value = logs_data'.data[id]]_vars

\* info has looked up a number outside the index and then a number inside it: the
\* first is reported not found, the second is shown
C15_Witness ==
    /\ pc = "info"
    /\ Len(result.shown) = 2
    /\ result.shown[1].kind = "number_not_found" /\ result.shown[1].file_id = <<"9">>
    /\ result.shown[2].kind = "shown"
    /\ result.shown[2].data = logs_data.data[file_index[1]]
    /\ Len(file_index) = 2 /\ file_index[1] # logs_data.keys[1]

(***************************************************************************)
(* Claims about the fields derived from a record                           *)
(***************************************************************************)
\* C16: every record whose content-type response header has a value beginning with
\* application/json (a charset suffix, say) has the derived content type
\* application/json exactly
C16_JsonContentTypeNormalised ==
    \A id \in get_all_exchange_ids(logs_data) :
        \A i \in DOMAIN ContentTypeHeaders(logs_data.data[id].responseHeaders) :
            (/\ i = 1
             /\ ContentTypeHeaders(logs_data.data[id].responseHeaders)[i].values # <<>>
             /\ StartsWith(ContentTypeHeaders(logs_data.data[id].responseHeaders)[i].values[1],
                           <<"a", "p", "p", "l", "i", "c", "a", "t", "i", "o", "n", "/", "j", "s", "o", "n">>))
            => /\ Truthy(content_type(logs_data.data[id]))
               /\ content_type(logs_data.data[id]).value = <<"a", "p", "p", "l", "i", "c", "a", "t", "i", "o", "n", "/", "j", "s", "o", "n">>

\* the entry is a JSON object with every field but "name", and a valid method
LacksOnlyName(entry) ==
    /\ entry.json.kind = "object"
    /\ entry.json.keys = AllJsonKeys \ {"name"}
    /\ Upper(entry.json.values.method) \in HTTPMethod

\* C17: a .json entry whose JSON object has no "name" field is ingested all the
\* same, its record having the path "unknown"
C17_MissingNameIsUnknown ==
    pc = "processed" =>
        \A i \in JsonEntries :
            LacksOnlyName(zip_ref[i]) =>
                /\ zip_ref[i].file_name \in get_all_exchange_ids(logs_data)
                /\ zip_ref[i].file_name \notin Range(errors)
                /\ logs_data.data[zip_ref[i].file_name].path = <<"u", "n", "k", "n", "o", "w", "n">>

\* the records passing the filter whose group has this name
PassingOf(logs, fs, name) ==
    {id \in PassingRecords(logs, fs) : GroupName(logs.data[id]) = name}

\* C18: with a filter active, a completed summary is the aggregation of the records
\* passing the filter: a group has a row iff one of its records passes, and the
\* row's methods, status codes and request count are those of its passing records
C18_FilteredSummaryOfPassing ==
    (pc = "summary" /\ filters # <<>>) =>
        /\ {result.rows[k].name : k \in DOMAIN result.rows}
              = {GroupName(logs_data.data[id]) : id \in PassingRecords(logs_data, filters)}
        /\ \A k \in DOMAIN result.rows :
              /\ result.rows[k].methods =
                    Join(Sorted({logs_data.data[id].method :
                                    id \in PassingOf(logs_data, filters, result.rows[k].name)}))
              /\ result.rows[k].status_codes =
                    Join(Sorted({IntToStr(logs_data.data[id].inferredStatusCode) :
                                    id \in PassingOf(logs_data, filters, result.rows[k].name)}))
              /\ result.rows[k].request_count =
                    IntToStr(Cardinality(PassingOf(logs_data, filters, result.rows[k].name)))

\* the url is a path with an optional query string, of as many segments as the path
PathWithQuery(exchange) ==
    /\ StartsWith(exchange.url, <<"/">>)
    /\ Len(Split(Split(exchange.url, "?")[1], "/")) = Len(Split(exchange.path, "/"))

\* the text of the url after its first '?', empty without one
QueryString(url) == IF Find(url, "?") = 0 THEN <<>> ELSE SubSeq(url, Find(url, "?") + 1, Len(url))

\* the key=value pairs of the query string
QueryPairs(url) ==
    SelectSeq(Split(QueryString(url), "&"), LAMBDA param : "=" \in Range(param))

\* the segment is a placeholder {name}
IsPlaceholder(segment) ==
    /\ Len(segment) >= 3 /\ segment[1] = "{" /\ segment[Len(segment)] = "}"
    /\ "}" \notin Range(SubSeq(segment, 2, Len(segment) - 1))

\* C19: of a record whose url is a path with an optional query string and whose path
\* template has as many segments, pathParams yields for each placeholder {name} at
\* segment i the parameter name = segment i of the url, and queryParams yields one
\* parameter for each key=value pair of the query string
C19_PathAndQueryParams ==
    \A id \in get_all_exchange_ids(logs_data) :
        PathWithQuery(logs_data.data[id]) =>
            /\ {<<param.name, param.values>> : param \in Range(pathParams(logs_data.data[id]))}
                  = {<<SubSeq(Split(logs_data.data[id].path, "/")[i], 2,
                              Len(Split(logs_data.data[id].path, "/")[i]) - 1),
                       <<Split(Split(logs_data.data[id].url, "?")[1], "/")[i]>> >> :
                        i \in {j \in DOMAIN Split(logs_data.data[id].path, "/") :
                                  IsPlaceholder(Split(logs_data.data[id].path, "/")[j])}}
            /\ queryParams(logs_data.data[id]).exc = "none"
            /\ Len(queryParams(logs_data.data[id]).ret) = Len(QueryPairs(logs_data.data[id].url))
            /\ \A k \in DOMAIN queryParams(logs_data.data[id]).ret :
                  queryParams(logs_data.data[id]).ret[k].name
                     \o <<"=">> \o queryParams(logs_data.data[id]).ret[k].values[1]
                  = QueryPairs(logs_data.data[id].url)[k]

\* C20: a count with the one criterion path=p selects exactly the records whose
\* path equals p (equality, no substring containment)
C20_PathCriterionExact ==
    (pc \in {"count", "crashed"} /\ Len(filters) = 1 /\ filters[1][1] = <<"p", "a", "t", "h">>) =>
        /\ pc = "count"
        /\ result.passing =
              {id \in get_all_exchange_ids(logs_data) : logs_data.data[id].path = filters[1][2]}

(***************************************************************************)
(* Claims about the filter expression                                      *)
(***************************************************************************)
\* the keys of the spec's table of recognized keys
RecognizedKeys == FiltersFields \cup {<<"i", "n", "_", "s", "c", "h", "e", "m", "a">>}

\* every criterion of the filter carries a key that neither the spec's table nor
\* the filter engine knows
AllUnrecognized(fs) ==
    /\ fs # <<>>
    /\ \A i \in DOMAIN fs : fs[i][1] \notin RecognizedKeys \cup FilterFunctionKeys

\* C21: a filter expression all of whose tokens carry unrecognized keys behaves for
\* count and list like the empty expression: the command completes, every record
\* passes, and no filtered-count summary is printed
C21_UnrecognizedKeysIgnored ==
    ("cmd" \in DOMAIN result /\ result.cmd \in {"count", "list"} /\ AllUnrecognized(filters)) =>
        /\ pc \in {"count", "list"}
        /\ result.cmd = "count" =>
              /\ result.passing = get_all_exchange_ids(logs_data)
              /\ Len(result.panels) = 1
        /\ result.cmd = "list" =>
              /\ Len(result.rows) = Len(file_index)
              /\ result.panels = <<>>

\* the keys of the key=value tokens of the parsed expression
TokenKeys(arg) ==
    {SubSeq(arg[i], 1, Find(arg[i], "=") - 1) : i \in {j \in DOMAIN arg : "=" \in Range(arg[j])}}

\* C22: the parser accepts each of the ten keys method, url, status_code,
\* inferred_status_code, coverage, size, content_type, requester, path and in_schema
\* (stores it in the filter, does not report it as invalid) and no other key
C22_TenKeysAccepted ==
    pc = "parsed" =>
        \A key \in TokenKeys(result.arg) :
            IF key \in RecognizedKeys
            THEN /\ key \in DOMAIN filters /\ ~filters[key].is_none
                 /\ key \notin Range(result.invalid)
            ELSE /\ key \in DOMAIN filters => filters[key].is_none
                 /\ key \in Range(result.invalid)

(***************************************************************************)
(* app/main.py: analyze                                                    *)
(*                                                                         *)
(* A zip_file is [name, is_zip, archive]: the name of an existing file,    *)
(* whether zipfile.ZipFile can open it (it raises BadZipFile otherwise),   *)
(* and the entries it then holds.                                          *)
(***************************************************************************)
\* the position of the last c in s, 0 when there is none
RFind(s, c) ==
    IF c \in Range(s) THEN CHOOSE i \in DOMAIN s : s[i] = c /\ \A j \in (i + 1)..Len(s) : s[j] # c
    ELSE 0

\* Path(zip_file).suffix: the name from its last '.' on, unless that '.' is the
\* first or the last character of the name
Suffix(name) ==
    IF 1 < RFind(name, ".") /\ RFind(name, ".") < Len(name)
    THEN SubSeq(name, RFind(name, "."), Len(name))
    ELSE <<>>

ZipNames == {<<"l", ".", "z", "i", "p">>, <<"l", ".", "t", "x", "t">>, <<"l">>, <<".", "z", "i", "p">>, <<"l", ".", "Z", "I", "P">>, <<"l", ".", "z", "i", "p", ".", "b", "a", "k">>}

ZipFiles == {[name |-> n, is_zip |-> b, archive |-> a] : n \in ZipNames, b \in BOOLEAN, a \in Archives}

\* what analyze has done with the zip file: the lines written to stderr
Analyzed(zip_file, stderr) ==
    [cmd |-> "analyze", name |-> zip_file.name, is_zip |-> zip_file.is_zip, stderr |-> stderr]

\* analyze without the return after the suffix error
analyze_no_return(zip_file) ==
    /\ pc = "load"
    /\ IF ~zip_file.is_zip
       THEN /\ pc' = "failed"
            /\ result' = Analyzed(zip_file,
                             (IF Suffix(zip_file.name) # <<".", "z", "i", "p">>
                              THEN <<"Error: File must be a zip file">> ELSE <<>>)
                             \o <<"Error processing zip file">>)
            /\ UNCHANGED <<logs_data, zip_ref, errors>>
       ELSE /\ pc' = "processed"
            /\ result' = Analyzed(zip_file,
                             IF Suffix(zip_file.name) # <<".", "z", "i", "p">>
                             THEN <<"Error: File must be a zip file">> ELSE <<>>)
            /\ zip_ref' = zip_file.archive
            /\ \E done \in {ProcessEntries([logs |-> EmptyLogsData, errors |-> <<>>],
                                           zip_file.archive)} :
                  logs_data' = done.logs /\ errors' = done.errors
    /\ UNCHANGED <<filters, endpoints_data, calls, file_index, index_file, endpoints>>

\* analyze(zip_file) up to the call of start_shell: the suffix test, then
\* process_zip inside the try
analyze(zip_file) ==
    /\ pc = "load"
    /\ IF Suffix(zip_file.name) # <<".", "z", "i", "p">>
       THEN /\ pc' = "failed"
            /\ result' = Analyzed(zip_file, <<"Error: File must be a zip file">>)
            /\ UNCHANGED <<logs_data, zip_ref, errors>>
       ELSE IF ~zip_file.is_zip
       THEN /\ pc' = "failed"
            /\ result' = Analyzed(zip_file, <<"Error processing zip file">>)
            /\ UNCHANGED <<logs_data, zip_ref, errors>>
       ELSE /\ pc' = "processed"
            /\ result' = Analyzed(zip_file, <<>>)
            /\ zip_ref' = zip_file.archive
            /\ \E done \in {ProcessEntries([logs |-> EmptyLogsData, errors |-> <<>>],
                                           zip_file.archive)} :
                  logs_data' = done.logs /\ errors' = done.errors
    /\ UNCHANGED <<filters, endpoints_data, calls, file_index, index_file, endpoints>>

\* start_shell(logs_data), called by analyze when process_zip has returned
analyze_start_shell ==
    /\ pc = "processed"
    /\ "cmd" \in DOMAIN result /\ result.cmd = "analyze"
    /\ pc' = "shell"
    /\ file_index' = FileIndex(logs_data)
    /\ index_file' = IndexFile(logs_data)
    /\ endpoints' = extract_endpoints(RawDict(logs_data))
    /\ UNCHANGED <<logs_data, filters, result, endpoints_data, zip_ref, errors, calls>>

NextMain ==
    \/ \E zip_file \in ZipFiles : analyze(zip_file)
    \/ analyze_start_shell

SpecMain == Init /\ [][NextMain]_vars

(***************************************************************************)
(* Claims about the start of the session                                   *)
(***************************************************************************)
\* C23: the session starts only after process_zip has returned a record set: when
\* the file lacks the .zip suffix or process_zip raises, the error is reported
\* once, start_shell is not invoked then and no step follows
C23_SessionOnlyAfterIngest ==
    [][/\ pc # "failed"
       /\ pc' = "shell" =>
             /\ pc = "processed"
             /\ EndsWith(result'.name, <<".", "z", "i", "p">>) /\ result'.is_zip
             /\ result'.stderr = <<>>
       /\ (pc = "load" /\ (~EndsWith(result'.name, <<".", "z", "i", "p">>) \/ ~result'.is_zip)) =>
             /\ pc' = "failed"
             /\ Len(result'.stderr) = 1
             /\ file_index' = <<>> /\ logs_data' = EmptyLogsData]_vars

\* a file that is no zip archive, named .zip, has been reported once
C23_Witness ==
    /\ pc = "failed"
    /\ result.name = <<"l", ".", "z", "i", "p">> /\ ~result.is_zip
    /\ result.stderr = <<"Error processing zip file">>

(***************************************************************************)
(* Claims about the parameters derived from a record                       *)
(***************************************************************************)
\* the segments of the path component of the url (scheme, host and query left out)
UrlPathSegments(url) == Split(extract_path_from_url(url), "/")

\* the segments of the template that hold a placeholder and face a segment of segs
Placeholders(path, segs) ==
    {i \in DOMAIN Split(path, "/") :
        ParamMatches(Split(path, "/")[i]) # {} /\ i \in DOMAIN segs}

\* C24: pathParams aligns the placeholders of the template against the segments of
\* the url's path component: for every url, a full URL with scheme and host too,
\* the value of the placeholder at template segment i is segment i of that path
C24_PathParamsFromUrlPath ==
    pc = "read" =>
        Range(result.pathParams) =
            {ExchangeParameter(ParamName(Split(result.exchange.path, "/")[i]),
                               UrlPathSegments(result.exchange.url)[i], "path") :
                i \in Placeholders(result.exchange.path, UrlPathSegments(result.exchange.url))}

\* C27: of a record whose url holds no query string, reading queryParams does not
\* fail and gives the empty sequence
C27_NoQueryNoParams ==
    (pc = "read" /\ "?" \notin Range(result.exchange.url)) =>
        /\ result.queryParams.exc = "none"
        /\ result.queryParams.ret = <<>>

(***************************************************************************)
(* Claims about the ids of the groups                                      *)
(***************************************************************************)
\* the number a label stands for in bijective base 26 (A = 1, ..., Z = 26)
RECURSIVE LabelValue(_)
LabelValue(label) ==
    IF label = <<>> THEN 0
    ELSE 26 * LabelValue(SubSeq(label, 1, Len(label) - 1))
         + IndexIn(label[Len(label)], UpperCase)

\* C25: _generate_group_ids terminates (each pass of the while loop lowers temp_id,
\* which together with the letters made never exceeds the index) and gives the n-th
\* group (n from 0) the bijective base-26 label A, ..., Z, AA, AB, ...: 0 gives A,
\* 25 Z, 26 AA, 27 AB, and distinct groups get distinct labels
C25_GroupIdsBijective ==
    ("cmd" \in DOMAIN result /\ result.cmd = "group_ids") =>
        /\ result.temp_id >= -1
        /\ pc = "while" =>
              result.temp_id + Len(result.id_str) <= Len(result.group_ids)
        /\ \A n \in DOMAIN result.group_ids :
              /\ result.group_ids[n] # <<>>
              /\ Range(result.group_ids[n]) \subseteq Range(UpperCase)
              /\ LabelValue(result.group_ids[n]) = n
              /\ result.group_ids[n] = GroupId(n - 1)
        /\ \A n, m \in DOMAIN result.group_ids :
              n # m => result.group_ids[n] # result.group_ids[m]
        /\ Len(result.group_ids) >= 1 => result.group_ids[1] = <<"A">>
        /\ Len(result.group_ids) >= 26 => result.group_ids[26] = <<"Z">>
        /\ Len(result.group_ids) >= 27 => result.group_ids[27] = <<"A", "A">>
        /\ Len(result.group_ids) >= 28 => result.group_ids[28] = <<"A", "B">>

\* the ids of 28 groups have been returned, AA and AB the last two
C25_Witness ==
    /\ pc = "returned"
    /\ Len(result.group_ids) = 28
    /\ result.group_ids[27] = <<"A", "A">> /\ result.group_ids[28] = <<"A", "B">>

(***************************************************************************)
(* Claims about sequences of EndpointsInfoData.add_exchange calls          *)
(***************************************************************************)
\* C26: after any sequence of EndpointsInfoData.add_exchange calls every aggregate
\* has as many recorded response lengths as member records:
\* len(response_lengths) = count_exchanges
C26_OneLengthPerMember ==
    \A key \in get_all_endpoint_paths(endpoints_data) :
        Len(endpoints_data.data[key].response_lengths)
            = EndpointInfo_count_exchanges(endpoints_data.data[key])

(***************************************************************************)
(* Claims about the groups of the summary                                  *)
(***************************************************************************)
\* the filter raises for no record of the session
FilterRaisesNowhere(logs, fs) ==
    \A id \in get_all_exchange_ids(logs) : apply_filters(logs.data[id], fs).exc = "none"

\* C28: for every record set and filter (one that apply_filters evaluates without
\* raising), summary computes the group name of each counted record without failure
\* and that name is a key of the endpoints map extract_endpoints built of the same
\* record set; so the filtered groups are no more than the groups and every counted
\* group has a row
C28_CountedGroupsAreGroups ==
    ("cmd" \in DOMAIN result /\ result.cmd = "summary"
     /\ FilterRaisesNowhere(logs_data, filters)) =>
        /\ pc = "summary"
        /\ \A id \in PassingRecords(logs_data, filters) :
              /\ CountedName(logs_data.data[id]).exc = "none"
              /\ CountedName(logs_data.data[id]).ret \in Range(endpoints.keys)
              /\ \E k \in DOMAIN result.rows :
                    result.rows[k].name = CountedName(logs_data.data[id]).ret
        /\ filters # <<>> => result.panels[1].value[1] <= result.panels[1].value[2]

(***************************************************************************)
(* Claims about info                                                       *)
(***************************************************************************)
\* C29: for every non-empty argument a completed info has shown at least one record
\* or printed an error or not-found message for each identifier asked for (or the
\* usage message): it never returns with nothing printed
C29_InfoNeverSilent ==
    [][(pc = "shell" /\ pc' = "info") =>
          \/ result'.usage
          \/ /\ result'.shown # <<>>
             /\ \A k \in DOMAIN result'.shown :
                   result'.shown[k].kind \in
                       {"shown", "number_not_found", "file_not_found", "missing", "no_match"}]_vars

(***************************************************************************)
(* Claims about list                                                       *)
(***************************************************************************)
\* C30: the content type the content_type criterion tests is the one list shows:
\* a completed `list content_type=X` shows the rows whose Content Type column
\* contains X, and only those
C30_ContentTypeColumnMatches ==
    (pc = "list" /\ Len(filters) = 1 /\ filters[1][1] = <<"c", "o", "n", "t", "e", "n", "t", "_", "t", "y", "p", "e">>
     /\ ~_is_inverted_filter(filters[1][2])[1]) =>
        /\ \A k \in DOMAIN result.rows :
              Contains(result.rows[k].content_type, filters[1][2])
        /\ \A num \in DOMAIN file_index :
              Contains(ListContentType(logs_data.data[file_index[num]]), filters[1][2])
                 => \E k \in DOMAIN result.rows : result.rows[k].num = IntToStr(num)

====
